---------------------------- MODULE Spec2Model ----------------------------
(***************************************************************************)
(* Room coordination over a shared blob store.                             *)
(*                                                                         *)
(* MultiplayerManager (src/unnamed/part_004) and SyncManager               *)
(* (src/src/lib/multiplayer/host-controller.ts, second half) of            *)
(* wolfcha-web-fork, as a state machine.  Every `await` of the source is a *)
(* suspension point: the code between two awaits is one atomic action, and *)
(* the clients interleave at the awaits.                                   *)
(*                                                                         *)
(* The specifications share the variables:                                 *)
(*   Spec      clients drive MultiplayerManager (createRoom, joinRoom,     *)
(*             leaveRoom, setReady, startGame, updateGameState,            *)
(*             submitAction, endGame, reconnect) against one store whose   *)
(*             requests may fail;                                          *)
(*   SpecRoom  createRoom / joinRoom / leaveRoom only, on a store that     *)
(*             never fails;                                                *)
(*   SpecLock  clients call updateWithLock directly, with a chosen updater *)
(*             and maxRetries, on a room that exists (SpecLockFair: the    *)
(*             store answers every request);                               *)
(*   SpecSync  SpecLock's calls together with start, stop, the polling     *)
(*             loop and refresh of one SyncManager instance per client.    *)
(*   SpecHost  the membership calls and the host-only calls together with  *)
(*             the polling loop that delivers the stored room;             *)
(*   SpecSeats createSeatMappings and createMultiplayerGameState applied   *)
(*             to a room's players when the host starts the game;          *)
(*   SpecController  the host's HostController driving the phases of a     *)
(*             started game (timers, AI requests, commits through          *)
(*             updateGameState) while the players call submitAction;       *)
(*   SpecSession  the same controller while players leave through the      *)
(*             hook's leaveRoom and the store fails a request;             *)
(*   SpecRestart  one controller on which start() and stop() are called    *)
(*             in any order;                                               *)
(*   SpecObserve  one polling loop per client with refresh and             *)
(*             updateWithLock calls, recording the status each loop        *)
(*             carries and the room each observer was handed.              *)
(***************************************************************************)
EXTENDS Integers, Sequences, FiniteSets, TLC

\* ------------------------------------------------------------------ bounds
\* number of client processes (each with its own player id)
NumClients == 2
\* API calls started in one behaviour
MaxOps == 5
\* store requests (reads or writes) that fail in one behaviour
MaxFail == 1
\* API calls started in one behaviour of SpecRoom
MaxRoomOps == 5
\* API calls started in one behaviour of SpecLock / SpecSync
MaxSyncOps == 3
\* store requests that fail in one behaviour of SpecLock / SpecSync
MaxSyncFail == 2
\* largest maxRetries argument the SpecLock / SpecSync callers pass
MaxRetriesArg == 3
\* polls (in flight or scheduled) of one SyncManager instance
MaxLoops == 2
\* room players handed to the seat functions in SpecSeats
MaxSeatPlayers == 7
\* seats of the game the controller is started on in SpecController
CtlSeats == 4
\* phase transitions of one controller
MaxTransitions == 8
\* stop() calls on one controller
MaxStops == 1
\* submitAction calls started while the controller runs
MaxCtlOps == 1
\* handler chains of one controller (one per start() call)
MaxChains == 2
\* store requests that fail, and leaveRoom calls, in one behaviour of
\* SpecSession
MaxSessionFail == 1
MaxSessionOps == 1
\* refresh and updateWithLock calls started in one behaviour of SpecObserve
MaxObsOps == 4

\* -------------------------------------------------------- program constants
\* updateWithLock's default maxRetries
DefaultMaxRetries == 3
\* DEFAULT_SYNC_CONFIG: the poll delays, in ms
WaitingInterval == 1000
PlayingInterval == 500
IdleInterval == 3000

Clients == 1..NumClients

\* ---------------------------------------------------------- the room object
\* getRoom's "no such object": a value every room differs from
NoRoom == [exists |-> FALSE]

\* gameState is `unknown` in RoomState: absent, or an object that may carry the
\* host's game state (gs) and the pending-action queue (actions, player ids)
NoGameState == [present |-> FALSE, gs |-> FALSE, actions |-> << >>]

NewPlayer(id, host, ready) ==
    [id |-> id, isHost |-> host, isReady |-> ready, isOnline |-> TRUE]

\* the room createRoom writes
FreshRoom(c) ==
    [exists |-> TRUE, version |-> 1, hostId |-> c, status |-> "waiting",
     players |-> << NewPlayer(c, TRUE, TRUE) >>, gameState |-> NoGameState]

\* Array.prototype.filter on players
RECURSIVE FilterOut(_, _)
FilterOut(ps, id) ==
    IF ps = << >> THEN << >>
    ELSE IF Head(ps).id = id THEN FilterOut(Tail(ps), id)
         ELSE << Head(ps) >> \o FilterOut(Tail(ps), id)

PlayerIds(room) == { room.players[i].id : i \in 1..Len(room.players) }

\* a find that never sees the caller among the players (wrong on purpose)
NeverMember(room, id) == FALSE

\* room.players.find(p => p.id === id)
HasPlayer(room, id) == \E i \in 1..Len(room.players) : room.players[i].id = id

FindPlayer(room, id) ==
    room.players[CHOOSE i \in 1..Len(room.players) :
                    /\ room.players[i].id = id
                    /\ \A j \in 1..(i-1) : room.players[j].id /= id]

\* room.players.every(p => p.isReady)
AllReady(room) == \A i \in 1..Len(room.players) : room.players[i].isReady

\* a map that sets isReady on every player (wrong on purpose)
MapReadyAll(ps, id, v) == [i \in 1..Len(ps) |-> [ps[i] EXCEPT !.isReady = v]]

\* players.map(p => p.id === id ? {...p, isReady: v} : p)
RECURSIVE MapReady(_, _, _)
MapReady(ps, id, v) ==
    IF ps = << >> THEN << >>
    ELSE << IF Head(ps).id = id THEN [Head(ps) EXCEPT !.isReady = v] ELSE Head(ps) >>
         \o MapReady(Tail(ps), id, v)

\* players.map(p => p.id === id ? {...p, isOnline: v, lastSeen: now} : p)
RECURSIVE MapOnline(_, _, _)
MapOnline(ps, id, v) ==
    IF ps = << >> THEN << >>
    ELSE << IF Head(ps).id = id THEN [Head(ps) EXCEPT !.isOnline = v] ELSE Head(ps) >>
         \o MapOnline(Tail(ps), id, v)

\* how many queued actions carry playerId = id
RECURSIVE CountActions(_, _)
CountActions(as, id) ==
    IF as = << >> THEN 0
    ELSE (IF Head(as) = id THEN 1 ELSE 0) + CountActions(Tail(as), id)

\* ------------------------------------------------------------ the updaters
\* setReady's updater
ReadyUpdater(c, ready, room) ==
    [room EXCEPT !.players = MapReady(room.players, c, ready)]

\* startGame's updater: `return room` when somebody is not ready
StartUpdater(room) ==
    IF ~AllReady(room) THEN room ELSE [room EXCEPT !.status = "playing"]

\* updateGameState's updater: gameState replaced by the host's object, which
\* carries no actions field
GameStateUpdater(room) ==
    [room EXCEPT !.gameState = [present |-> TRUE, gs |-> TRUE, actions |-> << >>]]

\* a submitAction whose updater starts a new queue (wrong on purpose)
ActionUpdaterFresh(c, room) ==
    [room EXCEPT !.gameState = [present |-> TRUE, gs |-> room.gameState.gs,
                                actions |-> << c >>]]

\* submitAction's updater
ActionUpdater(c, room) ==
    [room EXCEPT !.gameState = [present |-> TRUE, gs |-> room.gameState.gs,
                                actions |-> Append(room.gameState.actions, c)]]

\* endGame's updater
EndUpdater(room) == [room EXCEPT !.status = "ended"]

\* updateOnlineStatus's updater
OnlineUpdater(c, online, room) ==
    [room EXCEPT !.players = MapOnline(room.players, c, online)]

UpdaterKinds == {"ready", "start", "gameState", "action", "end", "online"}

Updater(kind, c, a, room) ==
    CASE kind = "ready"     -> ReadyUpdater(c, a, room)
      [] kind = "start"     -> StartUpdater(room)
      [] kind = "gameState" -> GameStateUpdater(room)
      [] kind = "action"    -> ActionUpdater(c, room)
      [] kind = "end"       -> EndUpdater(room)
      [] kind = "online"    -> OnlineUpdater(c, a, room)

\* an updateWithLock that hands the fetched room to the updater as it is (wrong
\* on purpose)
NoBump(room) == room

\* the object updateWithLock hands to the updater
Bump(room) == [room EXCEPT !.version = room.version + 1]

\* ------------------------------------------------------------------- state
VARIABLES
    store,       \* the room object in the blob store, or NoRoom
    failsLeft,   \* store requests that may still fail
    opsLeft,     \* API calls that may still be started
    hist,        \* history: "seq" createRoom/joinRoom/leaveRoom calls one after
                 \* another on a store that never failed; "conc" the same calls
                 \* but overlapping; "other" anything else
    call,        \* per client, the call in progress: pc (the await it is
                 \* suspended at, or "idle") and its locals: upd / arg (the
                 \* updater given to updateWithLock and its argument), room (the
                 \* room it fetched), i and maxRetries (updateWithLock's loop)
    out,         \* per client, the call started last: op (its name), ret (the
                 \* value returned, "pending" until then), err (the message
                 \* given to callbacks.onError), ulOut (how its updateWithLock
                 \* ended: "ok", "absent" room, retries "exhausted"), room (the
                 \* room a direct updateWithLock call returned)
    isHost,      \* per client: MultiplayerManager.isHost
    sync,        \* per client: MultiplayerManager.sync is not null
    joined,      \* per client: createRoom / joinRoom returned a room and
                 \* leaveRoom has not returned since
    lastVersion, \* per client: SyncManager.lastVersion
    intervalId,  \* per client: SyncManager.intervalId: "null", "live" (names a
                 \* pending timer) or "dead" (names a timer that has fired)
    timers,      \* per client: pending setTimeout callbacks of the instance
    inflight,    \* per client: poll() calls awaiting getRoom
    stopped      \* per client: stop() has returned and start() was not called since

\* the game side: seat assignment at game start (createSeatMappings,
\* createMultiplayerGameState)
VARIABLES
    multiPlayers, \* the room players handed to the seat functions, join order
    seatMappings, \* the result of createSeatMappings
    roles,        \* assignRoles: the role list being shuffled
    shuffleI,     \* shuffleArray: the loop index i
    gameState,    \* the result of createMultiplayerGameState
    seatPc        \* how far the game start has got

\* the host's side: HostController
VARIABLES
    isRunning,        \* HostController.isRunning
    currentGameState, \* HostController.currentGameState: phase, players (seat,
                      \* role, alive, isHuman), winner, day, currentSpeakerSeat
    aiActionTimeout,  \* HostController.aiActionTimeout: st "null", "live"
                      \* (names the pending timer of the delay of chain `of`)
                      \* or "dead" (names a timer that has fired)
    hc,               \* per handler chain (each start() call begins one): pc
                      \* (the await it is suspended at: "delay", "ai",
                      \* "update"; "cleared" when the timer of its delay was
                      \* cleared; "done" / "thrown" once the chain has ended),
                      \* stage (where in which handler), queue (the AI seats
                      \* its loop still has to visit)
    commit,           \* per handler chain, the updateWithLock of the
                      \* onGameStateUpdate in flight: pc, room (fetched), i
    hlog              \* history: transitions made, stop() calls, the last
                      \* checkGameEnd, failed (the updateGameState of the last
                      \* transition returned false)

\* what a client's SyncManager hands on: recorded by the actions of
\* SpecObserve; the other specifications leave the two where they begin
VARIABLES
    pollStatus,       \* per client: the status argument of the instance's
                      \* poll(status), which getInterval turns into the delay
                      \* of the next poll
    seen              \* per client: the room last passed to onUpdate

envVars  == << store, failsLeft, opsLeft, hist >>
callVars == << call, out >>
mgrVars  == << isHost, sync, joined >>
pollVars == << intervalId, timers, inflight, stopped >>
gameVars == << multiPlayers, seatMappings, roles, shuffleI, gameState, seatPc >>
roomVars == << envVars, callVars, mgrVars, lastVersion, pollVars >>
hostVars == << isRunning, currentGameState, aiActionTimeout, hc, commit, hlog >>
obsVars  == << pollStatus, seen >>
vars     == << roomVars, gameVars, hostVars, obsVars >>

PcValues == {"idle", "cr_get", "cr_save", "jn_get", "jn_save", "lv_get", "lv_write",
             "rc_get", "rf_get", "ul_get", "ul_save"}

TypeOK ==
    /\ failsLeft \in Nat /\ opsLeft \in Nat
    /\ hist \in {"seq", "conc", "other"}
    /\ \A c \in Clients : call[c].pc \in PcValues
    /\ isHost \in [Clients -> BOOLEAN] /\ sync \in [Clients -> BOOLEAN]
    /\ intervalId \in [Clients -> {"null", "live", "dead"}]
    /\ \A c \in Clients : timers[c] >= 0 /\ inflight[c] >= 0

\* ------------------------------------------------------------------- store
\* what getRoom can return: the stored room, or null when the request fails
\* (S3Storage.getJSON catches every error and returns null)
ReadResults ==
    {store} \cup (IF store.exists /\ failsLeft > 0 THEN {NoRoom} ELSE {})

\* the environment's part of a step in which getRoom returned r
ReadEnv(r) ==
    /\ failsLeft' = (IF r = store THEN failsLeft ELSE failsLeft - 1)
    /\ hist' = (IF r = store THEN hist ELSE "other")
    /\ UNCHANGED << store, opsLeft >>

\* saveRoom(room) answered true: the object is overwritten unconditionally
\* (deleteRoom: room = NoRoom)
WriteOk(room) ==
    /\ store' = room
    /\ UNCHANGED << failsLeft, opsLeft, hist >>

\* saveRoom / deleteRoom answered false: nothing is written
WriteFail ==
    /\ failsLeft > 0
    /\ failsLeft' = failsLeft - 1
    /\ hist' = "other"
    /\ UNCHANGED << store, opsLeft >>

\* ------------------------------------------------------------ call plumbing
MembershipOps == {"createRoom", "joinRoom", "leaveRoom"}

IdleCall ==
    [pc |-> "idle", upd |-> "none", arg |-> TRUE, room |-> NoRoom, i |-> 0,
     maxRetries |-> 0]

NoOut ==
    [op |-> "none", ret |-> "none", err |-> "none", ulOut |-> "none", room |-> NoRoom]

\* client c, with no call in progress, starts API call `name`
Begin(c, name) ==
    /\ call[c].pc = "idle"
    /\ opsLeft > 0
    /\ opsLeft' = opsLeft - 1
    /\ hist' = (IF name \in MembershipOps /\ hist /= "other"
                THEN (IF \A d \in Clients \ {c} : call[d].pc = "idle"
                      THEN hist ELSE "conc")
                ELSE "other")
    /\ UNCHANGED << store, failsLeft >>

\* the call runs to its first await, at p
Suspend(c, name, p) ==
    /\ call' = [call EXCEPT ![c].pc = p]
    /\ out' = [out EXCEPT ![c] = [NoOut EXCEPT !.op = name, !.ret = "pending"]]

\* the call returns r before its first await, having given e to onError
Refuse(c, name, r, e) ==
    /\ out' = [out EXCEPT ![c] = [NoOut EXCEPT !.op = name, !.ret = r, !.err = e]]
    /\ UNCHANGED call

\* the call moves on to the await at p
Goto(c, p) ==
    /\ call' = [call EXCEPT ![c].pc = p]
    /\ UNCHANGED out

\* the call moves on to the await at p, holding the room r it fetched
GotoWith(c, p, r) ==
    /\ call' = [call EXCEPT ![c].pc = p, ![c].room = r]
    /\ UNCHANGED out

\* the call returns r, having given e ("none": nothing) to onError; its locals
\* go out of scope
Return(c, r, e) ==
    /\ call' = [call EXCEPT ![c] = IdleCall]
    /\ out' = [out EXCEPT ![c].ret = r, ![c].err = e]

\* createRoom / joinRoom return a room or null; reconnect, which delegates to
\* joinRoom, returns (await this.joinRoom()) !== null
RoomResult(c, ok) ==
    IF out[c].op = "reconnect" THEN (IF ok THEN "true" ELSE "false")
    ELSE (IF ok THEN "room" ELSE "null")

\* startSync: a new SyncManager replaces this.sync and is started, so its first
\* poll is awaiting getRoom (an instance replaced this way is no longer tracked)
StartSync(c) ==
    /\ sync' = [sync EXCEPT ![c] = TRUE]
    /\ lastVersion' = [lastVersion EXCEPT ![c] = 0]
    /\ intervalId' = [intervalId EXCEPT ![c] = "null"]
    /\ timers' = [timers EXCEPT ![c] = 0]
    /\ inflight' = [inflight EXCEPT ![c] = 1]
    /\ stopped' = [stopped EXCEPT ![c] = FALSE]

\* the locals of updateWithLock(updater, max) as it reaches its first getRoom
LockLocals(kind, a, max) ==
    [pc |-> "ul_get", upd |-> kind, arg |-> a, room |-> NoRoom, i |-> 0,
     maxRetries |-> max]

\* a call in progress enters updateWithLock with the default maxRetries
EnterLock(c, kind, a) ==
    /\ call' = [call EXCEPT ![c] = LockLocals(kind, a, DefaultMaxRetries)]
    /\ UNCHANGED out

\* a call enters updateWithLock before any other await
BeginLock(c, name, kind, a, max) ==
    /\ call' = [call EXCEPT ![c] = LockLocals(kind, a, max)]
    /\ out' = [out EXCEPT ![c] = [NoOut EXCEPT !.op = name, !.ret = "pending"]]

\* SyncManager.stop: clearTimeout of the timer intervalId names, if it names one
Stop(c) ==
    /\ timers' = [timers EXCEPT ![c] = IF intervalId[c] = "live" THEN @ - 1 ELSE @]
    /\ intervalId' = [intervalId EXCEPT ![c] = "null"]
    /\ stopped' = [stopped EXCEPT ![c] = TRUE]
    /\ UNCHANGED inflight

\* ------------------------------------------- MultiplayerManager.createRoom
\* (initialize() has succeeded and a player name is set for every client)
CallCreateRoom(c) ==
    /\ Begin(c, "createRoom")
    /\ Suspend(c, "createRoom", "cr_get")
    /\ UNCHANGED << mgrVars, lastVersion, pollVars >>
    /\ UNCHANGED << gameVars, obsVars >>
    /\ UNCHANGED hostVars

\* const existing = await getRoom(); if (existing && status !== 'ended') fail
CrGet(c) ==
    /\ call[c].pc = "cr_get"
    /\ \E r \in ReadResults :
        /\ ReadEnv(r)
        /\ IF r.exists /\ r.status /= "ended"
           THEN Return(c, RoomResult(c, FALSE), "room_exists")
           ELSE Goto(c, "cr_save")
    /\ UNCHANGED << mgrVars, lastVersion, pollVars >>
    /\ UNCHANGED << gameVars, obsVars >>
    /\ UNCHANGED hostVars

\* const success = await saveRoom(room)
CrSave(c) ==
    /\ call[c].pc = "cr_save"
    /\ \/ /\ WriteOk(FreshRoom(c))
          /\ isHost' = [isHost EXCEPT ![c] = TRUE]
          /\ StartSync(c)
          /\ joined' = [joined EXCEPT ![c] = TRUE]
          /\ Return(c, RoomResult(c, TRUE), "none")
       \/ /\ WriteFail
          /\ Return(c, RoomResult(c, FALSE), "create_failed")
          /\ UNCHANGED << mgrVars, lastVersion, pollVars >>
    /\ UNCHANGED << gameVars, obsVars >>
    /\ UNCHANGED hostVars

\* --------------------------------------------- MultiplayerManager.joinRoom
CallJoinRoom(c) ==
    /\ Begin(c, "joinRoom")
    /\ Suspend(c, "joinRoom", "jn_get")
    /\ UNCHANGED << mgrVars, lastVersion, pollVars >>
    /\ UNCHANGED << gameVars, obsVars >>
    /\ UNCHANGED hostVars

\* a joinRoom that writes the caller as the only player (wrong on purpose)
JoinedRoomAlone(room, c) ==
    [room EXCEPT !.version = room.version + 1,
                 !.players = << NewPlayer(c, FALSE, FALSE) >>]

\* a joinRoom that writes the version it fetched (wrong on purpose)
JoinedRoomSameVersion(room, c) ==
    [room EXCEPT !.players = Append(room.players, NewPlayer(c, FALSE, FALSE))]

\* the room joinRoom writes: the fetched room with the caller appended
JoinedRoom(room, c) ==
    [room EXCEPT !.version = room.version + 1,
                 !.players = Append(room.players, NewPlayer(c, FALSE, FALSE))]

\* a joinRoom that never finds the game started (wrong on purpose)
GameNeverStarted(room) == FALSE

\* if (room.status === 'playing'): the game has started, nobody can join
GameStarted(room) == room.status = "playing"

\* const room = await getRoom(), and the code up to the next await
JnGet(c) ==
    /\ call[c].pc = "jn_get"
    /\ \E r \in ReadResults :
        /\ ReadEnv(r)
        /\ \/ /\ ~r.exists                      \* return this.createRoom()
              /\ Goto(c, "cr_get")
              /\ UNCHANGED << mgrVars, lastVersion, pollVars >>
           \/ /\ r.exists /\ HasPlayer(r, c)    \* already a member
              /\ isHost' = [isHost EXCEPT ![c] = FindPlayer(r, c).isHost]
              /\ StartSync(c)
              /\ EnterLock(c, "online", TRUE)
              /\ UNCHANGED joined
           \/ /\ r.exists /\ ~HasPlayer(r, c) /\ GameStarted(r)
              /\ Return(c, RoomResult(c, FALSE), "game_started")
              /\ UNCHANGED << mgrVars, lastVersion, pollVars >>
           \/ /\ r.exists /\ ~HasPlayer(r, c) /\ ~GameStarted(r)
              /\ GotoWith(c, "jn_save", r)
              /\ UNCHANGED << mgrVars, lastVersion, pollVars >>
    /\ UNCHANGED << gameVars, obsVars >>
    /\ UNCHANGED hostVars

\* const success = await saveRoom(updatedRoom)
JnSave(c) ==
    /\ call[c].pc = "jn_save"
    /\ \/ /\ WriteOk(JoinedRoom(call[c].room, c))
          /\ isHost' = [isHost EXCEPT ![c] = FALSE]
          /\ StartSync(c)
          /\ joined' = [joined EXCEPT ![c] = TRUE]
          /\ Return(c, RoomResult(c, TRUE), "none")
       \/ /\ WriteFail
          /\ Return(c, RoomResult(c, FALSE), "join_failed")
          /\ UNCHANGED << mgrVars, lastVersion, pollVars >>
    /\ UNCHANGED << gameVars, obsVars >>
    /\ UNCHANGED hostVars

\* -------------------------------------------- MultiplayerManager.leaveRoom
\* if (!this.sync) return; this.sync.stop()
CallLeaveRoomStep(c) ==
    /\ Begin(c, "leaveRoom")
    /\ IF ~sync[c]
       THEN /\ Refuse(c, "leaveRoom", "void", "none")
            /\ joined' = [joined EXCEPT ![c] = FALSE]
            /\ UNCHANGED pollVars
       ELSE /\ Stop(c)
            /\ Suspend(c, "leaveRoom", "lv_get")
            /\ UNCHANGED joined
    /\ UNCHANGED << isHost, sync, lastVersion >>
    /\ UNCHANGED << gameVars, obsVars >>

CallLeaveRoom(c) == CallLeaveRoomStep(c) /\ UNCHANGED hostVars

\* const room = await getRoom(); if (!room) return
LvGetStep(c) ==
    /\ call[c].pc = "lv_get"
    /\ \E r \in ReadResults :
        /\ ReadEnv(r)
        /\ IF ~r.exists
           THEN /\ Return(c, "void", "none")
                /\ joined' = [joined EXCEPT ![c] = FALSE]
           ELSE /\ GotoWith(c, "lv_write", r)
                /\ UNCHANGED joined
    /\ UNCHANGED << isHost, sync, lastVersion, pollVars >>
    /\ UNCHANGED << gameVars, obsVars >>

LvGet(c) == LvGetStep(c) /\ UNCHANGED hostVars

\* a leaveRoom that saves the room even when nobody remains (wrong on purpose)
LeaveWriteKeeping(room, c, host) ==
    [room EXCEPT !.version = room.version + 1,
                 !.players = FilterOut(room.players, c)]

\* what leaveRoom writes from the room it fetched: the caller filtered out and,
\* when this.isHost (host) and somebody remains, the host moved to the first
\* remaining player; NoRoom stands for deleteRoom
LeaveWrite(room, c, host) ==
    LET updatedPlayers == FilterOut(room.players, c)
        transfer == host /\ Len(updatedPlayers) > 0
    IN  IF Len(updatedPlayers) = 0 THEN NoRoom
        ELSE [room EXCEPT
                !.version = room.version + 1,
                !.hostId = IF transfer THEN updatedPlayers[1].id ELSE room.hostId,
                !.players = IF transfer
                            THEN [updatedPlayers EXCEPT ![1].isHost = TRUE]
                            ELSE updatedPlayers]

\* await deleteRoom() / await saveRoom(), its result ignored; then the cleanup
LvWriteStep(c) ==
    /\ call[c].pc = "lv_write"
    /\ \/ WriteOk(LeaveWrite(call[c].room, c, isHost[c]))
       \/ WriteFail
    /\ sync' = [sync EXCEPT ![c] = FALSE]
    /\ isHost' = [isHost EXCEPT ![c] = FALSE]
    /\ joined' = [joined EXCEPT ![c] = FALSE]
    /\ Return(c, "void", "none")
    /\ UNCHANGED << lastVersion, pollVars >>
    /\ UNCHANGED << gameVars, obsVars >>

LvWrite(c) == LvWriteStep(c) /\ UNCHANGED hostVars

\* ------------------------------------------------ the locked-update callers
\* setReady(ready): if (!this.sync) return
CallSetReady(c, ready) ==
    /\ Begin(c, "setReady")
    /\ IF ~sync[c]
       THEN Refuse(c, "setReady", "void", "none")
       ELSE BeginLock(c, "setReady", "ready", ready, DefaultMaxRetries)
    /\ UNCHANGED << mgrVars, lastVersion, pollVars >>
    /\ UNCHANGED << gameVars, obsVars >>
    /\ UNCHANGED hostVars

\* startGame(): if (!this.isHost || !this.sync) { onError; return false }
CallStartGame(c) ==
    /\ Begin(c, "startGame")
    /\ IF ~isHost[c] \/ ~sync[c]
       THEN Refuse(c, "startGame", "false", "not_host")
       ELSE BeginLock(c, "startGame", "start", TRUE, DefaultMaxRetries)
    /\ UNCHANGED << mgrVars, lastVersion, pollVars >>
    /\ UNCHANGED << gameVars, obsVars >>
    /\ UNCHANGED hostVars

\* updateGameState(gameState): if (!this.isHost || !this.sync) return false
CallUpdateGameState(c) ==
    /\ Begin(c, "updateGameState")
    /\ IF ~isHost[c] \/ ~sync[c]
       THEN Refuse(c, "updateGameState", "false", "none")
       ELSE BeginLock(c, "updateGameState", "gameState", TRUE, DefaultMaxRetries)
    /\ UNCHANGED << mgrVars, lastVersion, pollVars >>
    /\ UNCHANGED << gameVars, obsVars >>
    /\ UNCHANGED hostVars

\* submitAction(action): if (!this.sync) return false
CallSubmitAction(c) ==
    /\ Begin(c, "submitAction")
    /\ IF ~sync[c]
       THEN Refuse(c, "submitAction", "false", "none")
       ELSE BeginLock(c, "submitAction", "action", TRUE, DefaultMaxRetries)
    /\ UNCHANGED << mgrVars, lastVersion, pollVars >>
    /\ UNCHANGED << gameVars, obsVars >>
    /\ UNCHANGED hostVars

\* endGame(): if (!this.isHost || !this.sync) return
CallEndGame(c) ==
    /\ Begin(c, "endGame")
    /\ IF ~isHost[c] \/ ~sync[c]
       THEN Refuse(c, "endGame", "void", "none")
       ELSE BeginLock(c, "endGame", "end", TRUE, DefaultMaxRetries)
    /\ UNCHANGED << mgrVars, lastVersion, pollVars >>
    /\ UNCHANGED << gameVars, obsVars >>
    /\ UNCHANGED hostVars

\* --------------------------------------------- MultiplayerManager.reconnect
\* (config and roomId are set; createStorage gives an equivalent storage)
CallReconnect(c) ==
    /\ Begin(c, "reconnect")
    /\ Suspend(c, "reconnect", "rc_get")
    /\ UNCHANGED << mgrVars, lastVersion, pollVars >>
    /\ UNCHANGED << gameVars, obsVars >>
    /\ UNCHANGED hostVars

\* const room = await getRoom(), and the code up to the next await
RcGet(c) ==
    /\ call[c].pc = "rc_get"
    /\ \E r \in ReadResults :
        /\ ReadEnv(r)
        /\ \/ /\ ~r.exists
              /\ Return(c, "false", "room_missing")
              /\ UNCHANGED << mgrVars, lastVersion, pollVars >>
           \/ /\ r.exists /\ ~HasPlayer(r, c)   \* return (await joinRoom()) !== null
              /\ Goto(c, "jn_get")
              /\ UNCHANGED << mgrVars, lastVersion, pollVars >>
           \/ /\ r.exists /\ HasPlayer(r, c)
              /\ isHost' = [isHost EXCEPT ![c] = FindPlayer(r, c).isHost]
              /\ StartSync(c)
              /\ EnterLock(c, "online", TRUE)
              /\ UNCHANGED joined
    /\ UNCHANGED << gameVars, obsVars >>
    /\ UNCHANGED hostVars

\* ------------------------------------------------ SyncManager.updateWithLock
\* what the caller of updateWithLock returns, given its result r (NoRoom: null)
LockResult(c, r) ==
    CASE out[c].op \in {"setReady", "endGame"} -> "void"
      [] out[c].op = "startGame" ->
            IF r.exists /\ r.status = "playing" THEN "true" ELSE "false"
      [] out[c].op \in {"updateGameState", "submitAction"} ->
            IF r.exists THEN "true" ELSE "false"
      [] out[c].op = "joinRoom" -> "room"
      [] out[c].op = "reconnect" -> "true"
      [] OTHER -> IF r.exists THEN "room" ELSE "null"

\* what the caller reports to onError
LockError(c, r) ==
    IF out[c].op = "startGame" /\ ~(r.exists /\ r.status = "playing")
    THEN "not_ready" ELSE "none"

\* updateWithLock returns r to its caller, which runs to its own return
FinishLock(c, r, how) ==
    /\ call' = [call EXCEPT ![c] = IdleCall]
    /\ out' = [out EXCEPT ![c].ret = LockResult(c, r), ![c].err = LockError(c, r),
                          ![c].ulOut = how,
                          ![c].room = IF out[c].op = "updateWithLock" THEN r ELSE NoRoom]
    /\ joined' = [joined EXCEPT ![c] = IF out[c].op \in {"joinRoom", "reconnect"}
                                       THEN TRUE ELSE @]

\* an updateWithLock that applies the updater to the room stored at the time of
\* the write instead of the room it fetched (wrong on purpose)
UpdatedOnStore(kind, c, a, room) == Updater(kind, c, a, Bump(store))

\* what one updateWithLock attempt writes, from the room it fetched
Updated(kind, c, a, room) == Updater(kind, c, a, Bump(room))

\* a loop that allows one attempt more (wrong on purpose)
MoreAttemptsInclusive(i, max) == i <= max

\* the loop condition i < maxRetries
MoreAttempts(i, max) == i < max

\* const room = await getRoom(); if (!room) return null
ULGet(c) ==
    /\ call[c].pc = "ul_get"
    /\ \E r \in ReadResults :
        /\ ReadEnv(r)
        /\ IF ~r.exists
           THEN FinishLock(c, NoRoom, "absent")
           ELSE /\ GotoWith(c, "ul_save", r)
                /\ UNCHANGED joined
    /\ UNCHANGED << isHost, sync, lastVersion, pollVars >>
    /\ UNCHANGED << gameVars, obsVars >>
    /\ UNCHANGED hostVars

\* const success = await saveRoom(updated); on failure the backoff wait, the
\* loop's i++ and its condition
ULSaveStep(c) ==
    /\ call[c].pc = "ul_save"
    /\ LET updated == Updated(call[c].upd, c, call[c].arg, call[c].room)
       IN \/ /\ WriteOk(updated)
             /\ lastVersion' = [lastVersion EXCEPT ![c] = updated.version]
             /\ FinishLock(c, updated, "ok")
          \/ /\ WriteFail
             /\ IF MoreAttempts(call[c].i + 1, call[c].maxRetries)
                THEN /\ call' = [call EXCEPT ![c].pc = "ul_get", ![c].i = @ + 1,
                                             ![c].room = NoRoom]
                     /\ UNCHANGED << out, joined >>
                ELSE FinishLock(c, NoRoom, "exhausted")
             /\ UNCHANGED lastVersion
    /\ UNCHANGED << isHost, sync, pollVars >>
    /\ UNCHANGED gameVars
    /\ UNCHANGED hostVars

ULSave(c) == ULSaveStep(c) /\ UNCHANGED obsVars

\* ------------------------------------------------------ the specification
InitCalls ==
    /\ call = [c \in Clients |-> IdleCall]
    /\ out = [c \in Clients |-> NoOut]

\* no game start is under way
InitGame ==
    /\ multiPlayers = << >>
    /\ seatMappings = << >>
    /\ roles = << >>
    /\ shuffleI = 0
    /\ gameState = [present |-> FALSE]
    /\ seatPc = "none"

\* currentGameState before start()
NoState == [present |-> FALSE]

\* no handler is suspended / no onGameStateUpdate is in flight
NoHandler == [pc |-> "none", stage |-> "none", queue |-> << >>]
NoCommit == [pc |-> "idle", room |-> NoRoom, i |-> 0]
NoTimeout == [st |-> "null", of |-> 0]

\* the handler chains a controller can have: start() begins one each time
Chains == 1..MaxChains

InitController ==
    /\ isRunning = FALSE
    /\ currentGameState = NoState
    /\ aiActionTimeout = NoTimeout
    /\ hc = [k \in Chains |-> NoHandler]
    /\ commit = [k \in Chains |-> NoCommit]
    /\ hlog = [transitions |-> 0, stops |-> 0, check |-> [done |-> FALSE],
               failed |-> FALSE]

InitPoll ==
    /\ lastVersion = [c \in Clients |-> 0]
    /\ intervalId = [c \in Clients |-> "null"]
    /\ timers = [c \in Clients |-> 0]
    /\ inflight = [c \in Clients |-> 0]
    /\ stopped = [c \in Clients |-> FALSE]
    /\ pollStatus = [c \in Clients |-> "waiting"]
    /\ seen = [c \in Clients |-> NoRoom]

\* no room is stored and every client has a constructed, initialized manager
Init ==
    /\ store = NoRoom
    /\ failsLeft = MaxFail
    /\ opsLeft = MaxOps
    /\ hist = "other"
    /\ InitCalls
    /\ isHost = [c \in Clients |-> FALSE]
    /\ sync = [c \in Clients |-> FALSE]
    /\ joined = [c \in Clients |-> FALSE]
    /\ InitPoll
    /\ InitGame
    /\ InitController

Next ==
    \E c \in Clients :
        \/ CallCreateRoom(c) \/ CrGet(c) \/ CrSave(c)
        \/ CallJoinRoom(c) \/ JnGet(c) \/ JnSave(c)
        \/ CallLeaveRoom(c) \/ LvGet(c) \/ LvWrite(c)
        \/ \E ready \in BOOLEAN : CallSetReady(c, ready)
        \/ CallStartGame(c)
        \/ CallUpdateGameState(c)
        \/ CallSubmitAction(c)
        \/ CallEndGame(c)
        \/ CallReconnect(c) \/ RcGet(c)
        \/ ULGet(c) \/ ULSave(c)

\* the clients drive their managers against one store
Spec == Init /\ [][Next]_vars

\* ------------------------------------------- membership calls on their own
\* createRoom / joinRoom / leaveRoom issued by the clients in any interleaving,
\* against a store whose requests never fail
InitRoom ==
    /\ store = NoRoom
    /\ failsLeft = 0
    /\ opsLeft = MaxRoomOps
    /\ hist = "seq"
    /\ InitCalls
    /\ isHost = [c \in Clients |-> FALSE]
    /\ sync = [c \in Clients |-> FALSE]
    /\ joined = [c \in Clients |-> FALSE]
    /\ InitPoll
    /\ InitGame
    /\ InitController

NextRoom ==
    \E c \in Clients :
        \/ CallCreateRoom(c) \/ CrGet(c) \/ CrSave(c)
        \/ CallJoinRoom(c) \/ JnGet(c) \/ JnSave(c)
        \/ CallLeaveRoom(c) \/ LvGet(c) \/ LvWrite(c)
        \/ ULGet(c) \/ ULSave(c)

SpecRoom == InitRoom /\ [][NextRoom]_vars

\* --------------------------------------------------- SyncManager on its own
\* start(): this.stop(); this.poll(initialStatus) -- poll runs to its await
SyncStart(c) ==
    /\ opsLeft > 0
    /\ inflight[c] + timers[c] < MaxLoops
    /\ opsLeft' = opsLeft - 1
    /\ timers' = [timers EXCEPT ![c] = IF intervalId[c] = "live" THEN @ - 1 ELSE @]
    /\ intervalId' = [intervalId EXCEPT ![c] = "null"]
    /\ inflight' = [inflight EXCEPT ![c] = @ + 1]
    /\ stopped' = [stopped EXCEPT ![c] = FALSE]
    /\ UNCHANGED << store, failsLeft, hist, callVars, mgrVars, lastVersion >>
    /\ UNCHANGED << gameVars, obsVars >>
    /\ UNCHANGED hostVars

\* stop()
SyncStop(c) ==
    /\ opsLeft > 0
    /\ opsLeft' = opsLeft - 1
    /\ Stop(c)
    /\ UNCHANGED << store, failsLeft, hist, callVars, mgrVars, lastVersion >>
    /\ UNCHANGED << gameVars, obsVars >>
    /\ UNCHANGED hostVars

\* a pending timer fires and calls poll(status), which runs to its await; the
\* timer is the one intervalId names, or one an overwritten intervalId named
TimerFire(c) ==
    /\ timers[c] > 0
    /\ \/ /\ intervalId[c] = "live"
          /\ intervalId' = [intervalId EXCEPT ![c] = "dead"]
       \/ /\ timers[c] > (IF intervalId[c] = "live" THEN 1 ELSE 0)
          /\ UNCHANGED intervalId
    /\ timers' = [timers EXCEPT ![c] = @ - 1]
    /\ inflight' = [inflight EXCEPT ![c] = @ + 1]
    /\ UNCHANGED << envVars, callVars, mgrVars, lastVersion, stopped >>
    /\ UNCHANGED << gameVars, obsVars >>
    /\ UNCHANGED hostVars

\* a poll that schedules the next poll only when it got a room (wrong on
\* purpose)
PollReturnHalting(c) ==
    /\ inflight[c] > 0
    /\ \E r \in ReadResults :
        /\ ReadEnv(r)
        /\ lastVersion' = [lastVersion EXCEPT ![c] =
                              IF r.exists /\ r.version > @ THEN r.version ELSE @]
        /\ timers' = [timers EXCEPT ![c] = IF r.exists THEN @ + 1 ELSE @]
        /\ intervalId' = [intervalId EXCEPT ![c] = IF r.exists THEN "live" ELSE @]
    /\ inflight' = [inflight EXCEPT ![c] = @ - 1]
    /\ UNCHANGED << callVars, mgrVars, stopped >>
    /\ UNCHANGED << gameVars, obsVars >>
    /\ UNCHANGED hostVars

\* poll's getRoom returns: the observer is called for a newer version, and the
\* next poll is scheduled
PollReturnStep(c) ==
    /\ inflight[c] > 0
    /\ \E r \in ReadResults :
        /\ ReadEnv(r)
        /\ lastVersion' = [lastVersion EXCEPT ![c] =
                              IF r.exists /\ r.version > @ THEN r.version ELSE @]
    /\ inflight' = [inflight EXCEPT ![c] = @ - 1]
    /\ timers' = [timers EXCEPT ![c] = @ + 1]
    /\ intervalId' = [intervalId EXCEPT ![c] = "live"]
    /\ UNCHANGED << callVars, mgrVars, stopped >>
    /\ UNCHANGED gameVars
    /\ UNCHANGED hostVars

PollReturn(c) == PollReturnStep(c) /\ UNCHANGED obsVars

\* refresh()
RefreshCall(c) ==
    /\ Begin(c, "refresh")
    /\ Suspend(c, "refresh", "rf_get")
    /\ UNCHANGED << mgrVars, lastVersion, pollVars >>
    /\ UNCHANGED << gameVars, obsVars >>
    /\ UNCHANGED hostVars

\* refresh's getRoom returns
RefreshGetStep(c) ==
    /\ call[c].pc = "rf_get"
    /\ \E r \in ReadResults :
        /\ ReadEnv(r)
        /\ lastVersion' = [lastVersion EXCEPT ![c] = IF r.exists THEN r.version ELSE @]
        /\ Return(c, IF r.exists THEN "room" ELSE "null", "none")
    /\ UNCHANGED << mgrVars, pollVars >>
    /\ UNCHANGED gameVars
    /\ UNCHANGED hostVars

RefreshGet(c) == RefreshGetStep(c) /\ UNCHANGED obsVars

\* updateWithLock(updater, max) called directly, with one of the updaters the
\* manager passes
LockCall(c, kind, a, max) ==
    /\ Begin(c, "updateWithLock")
    /\ BeginLock(c, "updateWithLock", kind, a, max)
    /\ UNCHANGED << mgrVars, lastVersion, pollVars >>
    /\ UNCHANGED << gameVars, obsVars >>
    /\ UNCHANGED hostVars

\* the players of the room SpecLock and SpecSync start from: client 1 created
\* it, the others joined in order
RECURSIVE JoinedPlayers(_)
JoinedPlayers(n) ==
    IF n = 0 THEN << >>
    ELSE Append(JoinedPlayers(n - 1), NewPlayer(n, n = 1, n = 1))

InitialRoom ==
    [exists |-> TRUE, version |-> NumClients, hostId |-> 1, status |-> "waiting",
     players |-> JoinedPlayers(NumClients), gameState |-> NoGameState]

\* the room exists and every client holds a constructed SyncManager for it
InitLock ==
    /\ store = InitialRoom
    /\ failsLeft = MaxSyncFail
    /\ opsLeft = MaxSyncOps
    /\ hist = "other"
    /\ InitCalls
    /\ isHost = [c \in Clients |-> c = 1]
    /\ sync = [c \in Clients |-> TRUE]
    /\ joined = [c \in Clients |-> TRUE]
    /\ InitPoll
    /\ InitGame
    /\ InitController

\* the arguments of the direct calls: any updater, setReady's flag, maxRetries
LockCalls(c) ==
    \E kind \in UpdaterKinds, a \in BOOLEAN, max \in 1..MaxRetriesArg :
        /\ (kind /= "ready" => a)
        /\ LockCall(c, kind, a, max)

NextLock ==
    \E c \in Clients : LockCalls(c) \/ ULGet(c) \/ ULSave(c)

\* concurrent updateWithLock calls
SpecLock == InitLock /\ [][NextLock]_vars

\* the same, where the store answers every request of a call in progress
SpecLockFair ==
    SpecLock /\ \A c \in Clients : WF_vars(ULGet(c)) /\ WF_vars(ULSave(c))

NextSync ==
    \E c \in Clients :
        \/ SyncStart(c) \/ SyncStop(c) \/ TimerFire(c) \/ PollReturn(c)
        \/ RefreshCall(c) \/ RefreshGet(c)
        \/ LockCalls(c) \/ ULGet(c) \/ ULSave(c)

\* the polling loop, refresh and updateWithLock together
SpecSync == InitLock /\ [][NextSync]_vars

\* ------------------------------------------- what the SyncManager hands on
\* getInterval(status): the delay of the next poll, in ms
getInterval(status) ==
    CASE status = "waiting" -> WaitingInterval
      [] status = "playing" -> PlayingInterval
      [] status = "ended" -> IdleInterval
      [] OTHER -> WaitingInterval

\* the step brought client c the stored room from getRoom
Fetched(c) == store.exists /\ failsLeft' = failsLeft

\* poll's getRoom returns: a room newer than lastVersion goes to onUpdate and
\* sets the status the next poll is scheduled with
PollObserved(c) ==
    /\ PollReturnStep(c)
    /\ LET newer == Fetched(c) /\ store.version > lastVersion[c]
       IN  /\ seen' = [seen EXCEPT ![c] = IF newer THEN store ELSE @]
           /\ pollStatus' = [pollStatus EXCEPT ![c] =
                                IF newer THEN store.status ELSE @]

\* refresh's getRoom returns: a room goes to onUpdate
RefreshObserved(c) ==
    /\ RefreshGetStep(c)
    /\ seen' = [seen EXCEPT ![c] = IF Fetched(c) THEN store ELSE @]
    /\ UNCHANGED pollStatus

\* updateWithLock's saveRoom returns: the room written goes to onUpdate
SaveObserved(c) ==
    /\ ULSaveStep(c)
    /\ seen' = [seen EXCEPT ![c] = IF failsLeft' = failsLeft THEN store' ELSE @]
    /\ UNCHANGED pollStatus

\* the updaters of the observed calls: the two that change the room's status
\* and one that does not
ObservedKinds == { "start", "end", "action" }

\* the room exists, the store never fails, and every client's manager has run
\* startSync on the waiting room: poll('waiting') is awaiting its getRoom
InitObserve ==
    /\ store = InitialRoom
    /\ failsLeft = 0
    /\ opsLeft = MaxObsOps
    /\ hist = "other"
    /\ InitCalls
    /\ isHost = [c \in Clients |-> c = 1]
    /\ sync = [c \in Clients |-> TRUE]
    /\ joined = [c \in Clients |-> TRUE]
    /\ lastVersion = [c \in Clients |-> 0]
    /\ intervalId = [c \in Clients |-> "null"]
    /\ timers = [c \in Clients |-> 0]
    /\ inflight = [c \in Clients |-> 1]
    /\ stopped = [c \in Clients |-> FALSE]
    /\ pollStatus = [c \in Clients |-> "waiting"]
    /\ seen = [c \in Clients |-> NoRoom]
    /\ InitGame
    /\ InitController

NextObserve ==
    \E c \in Clients :
        \/ TimerFire(c) \/ PollObserved(c)
        \/ RefreshCall(c) \/ RefreshObserved(c)
        \/ \E kind \in ObservedKinds : LockCall(c, kind, TRUE, DefaultMaxRetries)
        \/ ULGet(c) \/ SaveObserved(c)

\* one polling loop per client, with refresh and updateWithLock calls, and
\* what each hands to its observer
SpecObserve == InitObserve /\ [][NextObserve]_vars

\* ------------------------------------------ the manager with its polling loop
NextHost ==
    \E c \in Clients :
        \/ CallCreateRoom(c) \/ CrGet(c) \/ CrSave(c)
        \/ CallJoinRoom(c) \/ JnGet(c) \/ JnSave(c)
        \/ CallLeaveRoom(c) \/ LvGet(c) \/ LvWrite(c)
        \/ CallStartGame(c) \/ CallUpdateGameState(c) \/ CallEndGame(c)
        \/ ULGet(c) \/ ULSave(c)
        \/ TimerFire(c) \/ PollReturn(c)

\* membership calls and the host-only calls, with the polling loop that
\* startSync starts running between them, on a store that never fails
SpecHost == InitRoom /\ [][NextHost]_vars

\* ------------------------------------------------- seat assignment at start
\* seats are never fewer than this
MinSeats == 6

\* the player counts the role table covers
MinRoleCount == 4
MaxRoleCount == 12

\* assignRoles: configs[count]
RoleConfig(count) ==
    CASE count = 4 -> << "Werewolf", "Seer", "Villager", "Villager" >>
      [] count = 5 -> << "Werewolf", "Seer", "Witch", "Villager", "Villager" >>
      [] count = 6 -> << "Werewolf", "Werewolf", "Seer", "Witch", "Villager",
                         "Villager" >>
      [] count = 7 -> << "Werewolf", "Werewolf", "Seer", "Witch", "Hunter",
                         "Villager", "Villager" >>
      [] count = 8 -> << "Werewolf", "Werewolf", "Seer", "Witch", "Hunter", "Guard",
                         "Villager", "Villager" >>
      [] count = 9 -> << "Werewolf", "Werewolf", "Werewolf", "Seer", "Witch",
                         "Hunter", "Guard", "Villager", "Villager" >>
      [] count = 10 -> << "Werewolf", "Werewolf", "Werewolf", "Seer", "Witch",
                          "Hunter", "Guard", "Villager", "Villager", "Villager" >>
      [] count = 11 -> << "Werewolf", "Werewolf", "Werewolf", "Seer", "Witch",
                          "Hunter", "Guard", "Villager", "Villager", "Villager",
                          "Villager" >>
      [] count = 12 -> << "Werewolf", "Werewolf", "Werewolf", "Werewolf", "Seer",
                          "Witch", "Hunter", "Guard", "Villager", "Villager",
                          "Villager", "Villager" >>

\* Math.min(Math.max(playerCount, 4), 12)
ClampCount(playerCount) ==
    IF playerCount < MinRoleCount THEN MinRoleCount
    ELSE IF playerCount > MaxRoleCount THEN MaxRoleCount ELSE playerCount

\* getAlignment(role)
getAlignment(role) == IF role = "Werewolf" THEN "wolf" ELSE "village"

\* a seat mapping that numbers the seats from 0 (wrong on purpose)
createSeatMappingsFromZero(mps, playerCount) ==
    [k \in 1..(IF Len(mps) < playerCount THEN Len(mps) ELSE playerCount) |->
        [multiPlayerId |-> mps[k].id, multiPlayerName |-> mps[k].id,
         gameSeat |-> k - 1, gamePlayerId |-> << "player", k - 1 >>]]

\* createSeatMappings(multiPlayers, playerCount): the players at index <
\* playerCount get seat index + 1 (k is index + 1; a player's name is modelled
\* by its id)
createSeatMappings(mps, playerCount) ==
    [k \in 1..(IF Len(mps) < playerCount THEN Len(mps) ELSE playerCount) |->
        [multiPlayerId |-> mps[k].id, multiPlayerName |-> mps[k].id,
         gameSeat |-> k, gamePlayerId |-> << "player", k >>]]

\* roles[index] of a JavaScript array (k is index + 1)
RoleAt(rs, k) == IF k <= Len(rs) THEN rs[k] ELSE "undefined"

\* createMultiplayerGameState(multiPlayers, seatMappings), given the shuffled
\* role list rs that assignRoles returned
createMultiplayerGameState(mps, mappings, rs) ==
    LET playerCount == Len(mps)
        humans == [k \in 1..Len(mappings) |->
                     [playerId |-> mappings[k].gamePlayerId,
                      seat |-> mappings[k].gameSeat,
                      displayName |-> mappings[k].multiPlayerName,
                      alive |-> TRUE,
                      role |-> RoleAt(rs, k),
                      alignment |-> getAlignment(RoleAt(rs, k)),
                      isHuman |-> TRUE]]
        totalSeats == IF playerCount > MinSeats THEN playerCount ELSE MinSeats
        AiRole(seat) == IF RoleAt(rs, seat) = "undefined" THEN "Villager"
                        ELSE RoleAt(rs, seat)
        ais == [k \in 1..(IF totalSeats > Len(humans)
                          THEN totalSeats - Len(humans) ELSE 0) |->
                  [playerId |-> << "ai", Len(humans) + k >>,
                   seat |-> Len(humans) + k,
                   displayName |-> << "AI", Len(humans) + k >>,
                   alive |-> TRUE,
                   role |-> AiRole(Len(humans) + k),
                   alignment |-> getAlignment(AiRole(Len(humans) + k)),
                   isHuman |-> FALSE]]
    IN  [present |-> TRUE, difficulty |-> "normal", players |-> humans \o ais,
         phase |-> "SETUP"]

\* const mappings = createSeatMappings(room.players, room.players.length)
SeatsMapped ==
    /\ seatPc = "start"
    /\ seatMappings' = createSeatMappings(multiPlayers, Len(multiPlayers))
    /\ seatPc' = "roles"
    /\ UNCHANGED << multiPlayers, roles, shuffleI, gameState, roomVars, hostVars, obsVars >>

\* assignRoles up to the shuffle loop: result = [...configs[count]], i = length - 1
RolesPicked ==
    /\ seatPc = "roles"
    /\ roles' = RoleConfig(ClampCount(Len(multiPlayers)))
    /\ shuffleI' = Len(roles') - 1
    /\ seatPc' = "shuffle"
    /\ UNCHANGED << multiPlayers, seatMappings, gameState, roomVars, hostVars, obsVars >>

\* one round of shuffleArray's loop: j = floor(random() * (i + 1)), swap, i--
ShuffleSwap ==
    /\ seatPc = "shuffle"
    /\ shuffleI > 0
    /\ \E j \in 0..shuffleI :
          roles' = [roles EXCEPT ![shuffleI + 1] = roles[j + 1],
                                 ![j + 1] = roles[shuffleI + 1]]
    /\ shuffleI' = shuffleI - 1
    /\ UNCHANGED << multiPlayers, seatMappings, gameState, seatPc, roomVars, hostVars, obsVars >>

\* the rest of createMultiplayerGameState, once the roles are shuffled
GameStateBuilt ==
    /\ seatPc = "shuffle"
    /\ shuffleI = 0
    /\ gameState' = createMultiplayerGameState(multiPlayers, seatMappings, roles)
    /\ seatPc' = "done"
    /\ UNCHANGED << multiPlayers, seatMappings, roles, shuffleI, roomVars, hostVars, obsVars >>

\* the host starts a game from a room of 1..MaxSeatPlayers players
InitSeats ==
    /\ store = NoRoom
    /\ failsLeft = 0
    /\ opsLeft = 0
    /\ hist = "other"
    /\ InitCalls
    /\ isHost = [c \in Clients |-> FALSE]
    /\ sync = [c \in Clients |-> FALSE]
    /\ joined = [c \in Clients |-> FALSE]
    /\ InitPoll
    /\ multiPlayers \in { JoinedPlayers(n) : n \in 1..MaxSeatPlayers }
    /\ seatMappings = << >>
    /\ roles = << >>
    /\ shuffleI = 0
    /\ gameState = [present |-> FALSE]
    /\ seatPc = "start"
    /\ InitController

NextSeats == SeatsMapped \/ RolesPicked \/ ShuffleSwap \/ GameStateBuilt

\* the seat functions applied to every room size up to the bound
SpecSeats == InitSeats /\ [][NextSeats]_vars

\* --------------------------------------------------------- HostController
\* the phases processPhase knows, and the one handleDayStart enters that it
\* has no handler for
NightActionPhases ==
    { "NIGHT_GUARD_ACTION", "NIGHT_WOLF_ACTION", "NIGHT_WITCH_ACTION",
      "NIGHT_SEER_ACTION" }
SpeechPhases == { "DAY_SPEECH", "DAY_BADGE_SPEECH", "DAY_PK_SPEECH" }
VotePhases == { "DAY_VOTE", "DAY_BADGE_ELECTION" }
Phases ==
    { "SETUP", "NIGHT_START", "NIGHT_RESOLVE", "DAY_START", "DAY_BADGE_SIGNUP",
      "DAY_RESOLVE", "GAME_END" } \cup NightActionPhases \cup SpeechPhases
      \cup VotePhases

\* the order of the night: position of a phase in NIGHT_START .. NIGHT_RESOLVE
NightOrder ==
    << "NIGHT_START", "NIGHT_GUARD_ACTION", "NIGHT_WOLF_ACTION",
       "NIGHT_WITCH_ACTION", "NIGHT_SEER_ACTION", "NIGHT_RESOLVE" >>

\* getNextNightPhase(phase, state) is imported from the game machine: which of
\* the later night phases it skips is its own business, so any later phase of
\* the night can be its answer
getNextNightPhase(phase) ==
    { NightOrder[j] : j \in { k \in 1..Len(NightOrder) :
                                \E i \in 1..(k - 1) : NightOrder[i] = phase } }

\* the role getAIPlayersForPhase looks for (roleMap)
roleMap(phase) ==
    CASE phase = "NIGHT_GUARD_ACTION" -> "Guard"
      [] phase = "NIGHT_WOLF_ACTION" -> "Werewolf"
      [] phase = "NIGHT_WITCH_ACTION" -> "Witch"
      [] phase = "NIGHT_SEER_ACTION" -> "Seer"
      [] OTHER -> "none"

\* the seats of the players ps, in order (a filtered player list is kept as
\* the list of its seats)
Seats(ps) == [i \in 1..Len(ps) |-> ps[i].seat]

\* getAIPlayersForPhase(phase)
getAIPlayersForPhase(state, phase) ==
    LET Keep(p) == ~p.isHuman /\ p.alive /\ p.role = roleMap(phase)
    IN  IF ~state.present \/ roleMap(phase) = "none" THEN << >>
        ELSE Seats(SelectSeq(state.players, Keep))

\* handleVote: players.filter(p => !p.isHuman && p.alive)
VotingAIPlayers(state) ==
    LET Keep(p) == ~p.isHuman /\ p.alive
    IN  Seats(SelectSeq(state.players, Keep))

\* a game-end check with a strict comparison (wrong on purpose)
checkGameEndStrict(state) ==
    LET IsWolf(p) == p.alive /\ p.role = "Werewolf"
        IsOther(p) == p.alive /\ p.role /= "Werewolf"
        aliveWolves == Seats(SelectSeq(state.players, IsWolf))
        aliveVillagers == Seats(SelectSeq(state.players, IsOther))
    IN  IF ~state.present THEN [ended |-> FALSE, winner |-> "none"]
        ELSE IF Len(aliveWolves) = 0 THEN [ended |-> TRUE, winner |-> "village"]
        ELSE IF Len(aliveWolves) > Len(aliveVillagers)
             THEN [ended |-> TRUE, winner |-> "wolf"]
        ELSE [ended |-> FALSE, winner |-> state.winner]

\* checkGameEnd(): what it returns and the winner the state holds afterwards
checkGameEnd(state) ==
    LET IsWolf(p) == p.alive /\ p.role = "Werewolf"
        IsOther(p) == p.alive /\ p.role /= "Werewolf"
        aliveWolves == Seats(SelectSeq(state.players, IsWolf))
        aliveVillagers == Seats(SelectSeq(state.players, IsOther))
    IN  IF ~state.present THEN [ended |-> FALSE, winner |-> "none"]
        ELSE IF Len(aliveWolves) = 0 THEN [ended |-> TRUE, winner |-> "village"]
        ELSE IF Len(aliveWolves) >= Len(aliveVillagers)
             THEN [ended |-> TRUE, winner |-> "wolf"]
        ELSE [ended |-> FALSE, winner |-> state.winner]

\* getRequiredPlayers(gameState), as seats
getRequiredPlayers(state) ==
    LET phase == state.phase
        Holds(p) == p.alive /\ p.role = roleMap(phase)
        Speaks(p) == p.alive /\ p.seat = state.currentSpeakerSeat
        Lives(p) == p.alive
        speakers == Seats(SelectSeq(state.players, Speaks))
    IN  CASE phase \in NightActionPhases -> Seats(SelectSeq(state.players, Holds))
          [] phase \in SpeechPhases ->
                IF state.currentSpeakerSeat = 0 \/ speakers = << >> THEN << >>
                ELSE << Head(speakers) >>
          [] phase \in VotePhases -> Seats(SelectSeq(state.players, Lives))
          [] OTHER -> << >>

\* the client whose hook created the controller: the room's host
HostClient == 1

\* the handler's promise chain has ended: by returning, or by a rejection
\* nothing catches
Returned == [pc |-> "done", stage |-> "none", queue |-> << >>]
Thrown == [pc |-> "thrown", stage |-> "none", queue |-> << >>]

\* this.delay(ms): a new timer, named by aiActionTimeout; the handler waits
\* for it at `stage`, holding the rest of its for-loop in `queue`
Delayed(stage, queue) == [pc |-> "delay", stage |-> stage, queue |-> queue]

\* one step of chain k of the controller: the new values of the fields and
\* of the chain's locals.  timeout says what the step does to aiActionTimeout:
\* "live" delay() stored a new timer, "dead" the timer of the chain's delay
\* has fired, "null" stop() cleared the timer it names, "same" nothing
HostStep(k, run, state, timeout, h, cm, log) ==
    LET named == aiActionTimeout.st = "live" /\ aiActionTimeout.of /= k
    IN  /\ isRunning' = run
        /\ currentGameState' = state
        /\ aiActionTimeout' =
              CASE timeout = "live" -> [st |-> "live", of |-> k]
                [] timeout = "dead" ->
                      IF aiActionTimeout = [st |-> "live", of |-> k]
                      THEN [st |-> "dead", of |-> 0] ELSE aiActionTimeout
                [] timeout = "null" -> NoTimeout
                [] OTHER -> aiActionTimeout
        /\ hc' = IF timeout = "null" /\ named
                 THEN [hc EXCEPT ![k] = h, ![aiActionTimeout.of].pc = "cleared"]
                 ELSE [hc EXCEPT ![k] = h]
        /\ commit' = [commit EXCEPT ![k] = cm]
        /\ hlog' = log

\* transitionTo(phase) up to its await of onGameStateUpdate: the hook's
\* callback calls manager.updateGameState(state), which refuses at once when
\* the manager is not host or has no sync, and otherwise enters updateWithLock
\* (a refused update is followed by delay(500) without another task running)
transitionTo(k, state, phase, timeout, log) ==
    /\ log.transitions < MaxTransitions
    /\ IF ~isHost[HostClient] \/ ~sync[HostClient]
       THEN HostStep(k, isRunning, [state EXCEPT !.phase = phase], "live",
                     Delayed("transition", << >>), commit[k],
                     [log EXCEPT !.transitions = @ + 1, !.failed = TRUE])
       ELSE HostStep(k, isRunning, [state EXCEPT !.phase = phase], timeout,
                     [pc |-> "update", stage |-> "transition", queue |-> << >>],
                     [pc |-> "ul_get", room |-> NoRoom, i |-> 0],
                     [log EXCEPT !.transitions = @ + 1])

\* a for-loop over AI players: the delay before the first one, or the delay
\* after the loop when there is none
LoopOver(queue, each, after) ==
    IF queue = << >> THEN Delayed(after, << >>) ELSE Delayed(each, queue)

\* processPhase(): where the handler of the state's phase first suspends (a
\* delay), or "transition" / "stop" / "done" when it gets to transitionTo, to
\* this.stop() or to its return without suspending
processPhase(run, state) ==
    IF ~run \/ ~state.present THEN [kind |-> "done"]
    ELSE LET phase == state.phase
             seats == { state.players[i].seat : i \in 1..Len(state.players) }
             speaker == CHOOSE i \in 1..Len(state.players) :
                           state.players[i].seat = state.currentSpeakerSeat
         IN CASE phase = "SETUP" -> [kind |-> "delay", h |-> Delayed("setup", << >>)]
              [] phase = "NIGHT_START" ->
                    [kind |-> "delay", h |-> Delayed("night_start", << >>)]
              [] phase \in NightActionPhases ->
                    [kind |-> "delay",
                     h |-> LoopOver(getAIPlayersForPhase(state, phase),
                                    "night_ai", "night_end")]
              [] phase = "NIGHT_RESOLVE" ->
                    [kind |-> "delay", h |-> Delayed("night_resolve", << >>)]
              [] phase = "DAY_START" ->
                    [kind |-> "delay", h |-> Delayed("day_start", << >>)]
              [] phase \in SpeechPhases ->
                    IF state.currentSpeakerSeat = 0
                    THEN [kind |-> "transition", to |-> "DAY_VOTE"]
                    ELSE IF state.currentSpeakerSeat \notin seats
                    THEN [kind |-> "done"]
                    ELSE IF ~state.players[speaker].isHuman
                    THEN [kind |-> "delay",
                          h |-> Delayed("speech_ai", << state.currentSpeakerSeat >>)]
                    ELSE [kind |-> "done"]
              [] phase \in VotePhases ->
                    [kind |-> "delay",
                     h |-> LoopOver(VotingAIPlayers(state), "vote_ai", "vote_end")]
              [] phase = "DAY_RESOLVE" ->
                    [kind |-> "delay", h |-> Delayed("day_resolve", << >>)]
              [] phase = "GAME_END" -> [kind |-> "stop"]
              [] OTHER -> [kind |-> "done"]

\* the step in which processPhase() runs on `state`
Process(k, run, state, timeout) ==
    LET r == processPhase(run, state)
    IN  CASE r.kind = "delay" ->
                HostStep(k, run, state, "live", r.h, commit[k], hlog)
          [] r.kind = "transition" -> transitionTo(k, state, r.to, timeout, hlog)
          [] r.kind = "stop" ->
                HostStep(k, FALSE, state, "null", Returned, commit[k], hlog)
          [] r.kind = "done" ->
                HostStep(k, run, state, timeout, Returned, commit[k], hlog)

\* the roles start() finds on the seats: a human Seer with Werewolves on the
\* next two seats, or a human Villager and Seer with Werewolves on the next two
CtlRoleRows ==
    { [i \in 1..CtlSeats |->
          IF i = 1 THEN "Seer" ELSE IF i <= 3 THEN "Werewolf" ELSE "Villager"],
      [i \in 1..CtlSeats |->
          IF i = 1 THEN "Villager" ELSE IF i = 2 THEN "Seer"
          ELSE IF i <= 4 THEN "Werewolf" ELSE "Villager"] }

\* the seats whose players have died by then
CtlDead == { {}, {3}, {2, 3}, {3, 4} }

\* the game states start() is given: the shape createMultiplayerGameState
\* builds (phase SETUP, humans on the first seats, AI behind them), with the
\* lives, day and speaker a game can have got to
StartPlayers ==
    { [i \in 1..CtlSeats |->
          [seat |-> i, role |-> rs[i], alive |-> i \notin dead,
           isHuman |-> i <= NumClients]] :
      rs \in CtlRoleRows, dead \in CtlDead }

StartStates ==
    { [present |-> TRUE, phase |-> "SETUP", players |-> ps, winner |-> "null",
       day |-> d, currentSpeakerSeat |-> s] :
      ps \in StartPlayers, d \in 1..2, s \in { 0, 1, CtlSeats } }

\* start(initialState), called once on the controller the hook created
HostStart ==
    /\ ~currentGameState.present
    /\ \E s \in StartStates : Process(1, TRUE, s, "same")
    /\ UNCHANGED << roomVars, gameVars, obsVars >>

\* stop(): isRunning = false, and the timer aiActionTimeout names is cleared,
\* so that the delay awaiting it never settles
stop ==
    /\ isRunning' = FALSE
    /\ aiActionTimeout' = NoTimeout
    /\ hc' = IF aiActionTimeout.st = "live"
             THEN [hc EXCEPT ![aiActionTimeout.of].pc = "cleared"] ELSE hc

\* stop(), from the hook (leaveRoom, onGameEnd, unmount)
HostStop ==
    /\ currentGameState.present
    /\ hlog.stops < MaxStops
    /\ stop
    /\ hlog' = [hlog EXCEPT !.stops = @ + 1]
    /\ UNCHANGED << currentGameState, commit >>
    /\ UNCHANGED << roomVars, gameVars, obsVars >>

\* a resolve handler that ends the game whatever the check says (wrong on
\* purpose)
ResolveAlwaysEnds(k, state, onward) ==
    LET r == checkGameEnd(state)
        log == [hlog EXCEPT !.check = [done |-> TRUE, phase |-> state.phase,
                                       players |-> state.players,
                                       ended |-> r.ended, winner |-> r.winner]]
    IN  transitionTo(k, [state EXCEPT !.winner = r.winner], "GAME_END", "dead",
                     log)

\* handleNightResolve / handleDayResolve after their delay: checkGameEnd sets
\* the winner on the state, and the handler goes to GAME_END or to `onward`
Resolve(k, state, onward) ==
    LET r == checkGameEnd(state)
        log == [hlog EXCEPT !.check = [done |-> TRUE, phase |-> state.phase,
                                       players |-> state.players,
                                       ended |-> r.ended, winner |-> r.winner]]
    IN  transitionTo(k, [state EXCEPT !.winner = r.winner],
                     IF r.ended THEN "GAME_END" ELSE onward, "dead", log)

\* a handleDayStart that opens the vote at once (wrong on purpose)
handleDayStartToVote(state) == "DAY_VOTE"

\* handleDayStart after its delay: the phase it goes to
handleDayStart(state) ==
    IF state.day = 1 THEN "DAY_BADGE_SIGNUP" ELSE "DAY_SPEECH"

\* the timer of this.delay fires and the handler runs to its next await
DelayFire(k) ==
    /\ hc[k].pc = "delay"
    /\ LET state == currentGameState
       IN CASE hc[k].stage = "setup" -> transitionTo(k, state, "NIGHT_START", "dead", hlog)
            [] hc[k].stage = "night_start" ->
                  \E p \in getNextNightPhase("NIGHT_START") :
                      transitionTo(k, state, p, "dead", hlog)
            [] hc[k].stage \in { "night_ai", "speech_ai", "vote_ai" } ->
                  HostStep(k, isRunning, state, "dead",
                           [pc |-> "ai", stage |-> hc[k].stage,
                            queue |-> hc[k].queue],
                           commit[k], hlog)
            [] hc[k].stage = "night_end" ->
                  \E p \in getNextNightPhase(state.phase) :
                      transitionTo(k, state, p, "dead", hlog)
            [] hc[k].stage = "night_resolve" -> Resolve(k, state, "DAY_START")
            [] hc[k].stage = "day_start" ->
                  transitionTo(k, state, handleDayStart(state), "dead", hlog)
            [] hc[k].stage = "vote_end" -> transitionTo(k, state, "DAY_RESOLVE", "dead", hlog)
            [] hc[k].stage = "day_resolve" -> Resolve(k, state, "NIGHT_START")
            [] hc[k].stage = "transition" -> Process(k, isRunning, state, "dead")
    /\ UNCHANGED << roomVars, gameVars, obsVars >>

\* onAIAction settles: executeAIAction catches a rejection, handleSpeech and
\* handleVote await the callback bare
AIReturn(k) ==
    /\ hc[k].pc = "ai"
    /\ \E ok \in BOOLEAN :
          LET h == CASE hc[k].stage = "night_ai" ->
                           LoopOver(Tail(hc[k].queue), "night_ai", "night_end")
                     [] hc[k].stage = "speech_ai" -> IF ok THEN Returned ELSE Thrown
                     [] hc[k].stage = "vote_ai" ->
                           IF ok THEN LoopOver(Tail(hc[k].queue), "vote_ai", "vote_end")
                           ELSE Thrown
          IN  HostStep(k, isRunning, currentGameState,
                       IF h.pc = "delay" THEN "live" ELSE "same",
                       h, commit[k], hlog)
    /\ UNCHANGED << roomVars, gameVars, obsVars >>

\* onGameStateUpdate has returned, its updateGameState having returned ok
\* (which the hook's callback drops): transitionTo goes on to delay(500)
AfterUpdate(k, run, ok) ==
    HostStep(k, run, currentGameState, "live", Delayed("transition", << >>),
             NoCommit, [hlog EXCEPT !.failed = ~ok])

\* the getRoom of the commit's updateWithLock returns
CommitGet(k) ==
    /\ commit[k].pc = "ul_get"
    /\ \E r \in ReadResults :
        /\ ReadEnv(r)
        /\ IF ~r.exists
           THEN AfterUpdate(k, isRunning, FALSE)
           ELSE HostStep(k, isRunning, currentGameState, "same", hc[k],
                         [commit[k] EXCEPT !.pc = "ul_save", !.room = r], hlog)
    /\ UNCHANGED << callVars, mgrVars, lastVersion, pollVars, gameVars, obsVars >>

\* the saveRoom of the commit's updateWithLock returns
CommitSave(k) ==
    /\ commit[k].pc = "ul_save"
    /\ LET updated == Updated("gameState", HostClient, TRUE, commit[k].room)
       IN \/ /\ WriteOk(updated)
             /\ lastVersion' = [lastVersion EXCEPT ![HostClient] = updated.version]
             /\ AfterUpdate(k, isRunning, TRUE)
          \/ /\ WriteFail
             /\ IF MoreAttempts(commit[k].i + 1, DefaultMaxRetries)
                THEN HostStep(k, isRunning, currentGameState, "same", hc[k],
                              [pc |-> "ul_get", room |-> NoRoom,
                               i |-> commit[k].i + 1],
                              hlog)
                ELSE AfterUpdate(k, isRunning, FALSE)
             /\ UNCHANGED lastVersion
    /\ UNCHANGED << callVars, mgrVars, pollVars, gameVars, obsVars >>

\* the room once the hook's startGame has run: playing, everybody ready, the
\* initial game state stored
PlayingRoom ==
    [InitialRoom EXCEPT !.version = NumClients + 2, !.status = "playing",
                        !.players = [i \in 1..NumClients |->
                                        NewPlayer(i, i = 1, TRUE)],
                        !.gameState = [present |-> TRUE, gs |-> TRUE,
                                       actions |-> << >>]]

\* the controller is about to be started; the store may still fail `fails`
\* requests and the clients may still start `ops` calls
PlayingWith(fails, ops) ==
    /\ store = PlayingRoom
    /\ failsLeft = fails
    /\ opsLeft = ops
    /\ hist = "other"
    /\ InitCalls
    /\ isHost = [c \in Clients |-> c = HostClient]
    /\ sync = [c \in Clients |-> TRUE]
    /\ joined = [c \in Clients |-> TRUE]
    /\ InitPoll
    /\ InitGame
    /\ InitController

InitPlaying == PlayingWith(0, MaxCtlOps)

NextController ==
    \/ HostStart \/ HostStop
    \/ \E k \in Chains : DelayFire(k) \/ AIReturn(k) \/ CommitGet(k) \/ CommitSave(k)
    \/ \E c \in Clients : CallSubmitAction(c) \/ ULGet(c) \/ ULSave(c)

\* the host's controller driving the phases of a started game while the
\* players submit actions
SpecController == InitPlaying /\ [][NextController]_vars

\* ------------------------------------------------- players leave mid-game
\* the hook's leaveRoom: await manager.leaveRoom(), and once that has
\* returned hostControllerRef.current?.stop() -- the ref holds a controller
\* only in the client whose startGame created one
HookLeaveRoom(c) ==
    /\ CallLeaveRoomStep(c) \/ LvGetStep(c) \/ LvWriteStep(c)
    /\ IF c = HostClient /\ call'[c].pc = "idle" /\ currentGameState.present
       THEN /\ stop
            /\ hlog' = [hlog EXCEPT !.stops = @ + 1]
            /\ UNCHANGED << currentGameState, commit >>
       ELSE UNCHANGED hostVars

InitSession == PlayingWith(MaxSessionFail, MaxSessionOps)

NextSession ==
    \/ HostStart
    \/ \E k \in Chains : DelayFire(k) \/ AIReturn(k) \/ CommitGet(k) \/ CommitSave(k)
    \/ \E c \in Clients : HookLeaveRoom(c)

\* the host's controller driving a started game while players leave through
\* the hook and the store fails some requests
SpecSession == InitSession /\ [][NextSession]_vars

\* ------------------------------------------- start() on a started controller
\* start(initialState) called again, with the state the controller has got
\* to (a game resumed): isRunning and currentGameState are set and
\* processPhase() begins another handler chain, whatever the chains begun
\* before are waiting for
HostStartAgain ==
    /\ currentGameState.present
    /\ \E k \in Chains :
          /\ hc[k].pc = "none"
          /\ \A j \in 1..(k - 1) : hc[j].pc /= "none"
          /\ Process(k, TRUE, currentGameState, "same")
    /\ UNCHANGED << roomVars, gameVars, obsVars >>

NextRestart ==
    \/ HostStart \/ HostStartAgain \/ HostStop
    \/ \E k \in Chains : DelayFire(k) \/ AIReturn(k) \/ CommitGet(k) \/ CommitSave(k)

\* one controller on which start() and stop() are called in any order
SpecRestart == InitPlaying /\ [][NextRestart]_vars

\* ================================================================== claims
\* every call has returned
AllReturned == \A c \in Clients : call[c].pc = "idle"

\* the stored players are exactly the clients that joined and have not left,
\* each once
MembersMatch ==
    LET ids == IF store.exists THEN PlayerIds(store) ELSE {}
    IN  /\ ids = {c \in Clients : joined[c]}
        /\ store.exists => Len(store.players) = Cardinality(ids)

\* C1 as stated: after createRoom / joinRoom / leaveRoom calls in any
\* interleaving on a store that never fails, once all calls have returned the
\* stored players are exactly the clients that joined and have not left, each
\* once
C1_AnyInterleaving == AllReturned => MembersMatch

\* C1 (amended): after createRoom / joinRoom / leaveRoom calls issued one after
\* another (no two overlapping) on a store that never fails, the stored players
\* are exactly the clients that joined and have not left, each once
C1_OneAfterAnother == (hist = "seq" /\ AllReturned) => MembersMatch

\* client 1 created the room, client 2 joined, client 1 left: client 2 remains
C1_Witness ==
    /\ hist = "seq" /\ AllReturned
    /\ out[1].op = "leaveRoom" /\ out[1].ret = "void"
    /\ out[2].op = "joinRoom" /\ out[2].ret = "room"
    /\ store.exists /\ Len(store.players) = 1 /\ store.players[1].id = 2
    /\ joined[2] /\ ~joined[1]

\* the indices of the stored players flagged isHost
HostFlags(room) == { i \in 1..Len(room.players) : room.players[i].isHost }

\* C2: in every stored room exactly one player has isHost = true, and that
\* player's id is room.hostId
C2_HostInvariant ==
    store.exists =>
        /\ Cardinality(HostFlags(store)) = 1
        /\ \A i \in HostFlags(store) : store.players[i].id = store.hostId

\* C3: when the player whose id is room.hostId leaves and somebody remains, the
\* write that removes the leaver makes the first remaining player the host
C3_HostTransfer ==
    [][\A c \in Clients :
         ( /\ call[c].pc = "lv_write" /\ call'[c].pc = "idle"
           /\ failsLeft' = failsLeft
           /\ call[c].room.hostId = c
           /\ Len(FilterOut(call[c].room.players, c)) > 0 )
         => ( /\ store'.exists
              /\ ~HasPlayer(store', c)
              /\ store'.hostId = FilterOut(call[c].room.players, c)[1].id
              /\ store'.players[1].isHost )]_vars

\* client c's startGame returns from updateWithLock's write
StartGameReturns(c) ==
    out[c].op = "startGame" /\ call[c].pc = "ul_save" /\ call'[c].pc = "idle"

\* C5: startGame returns false when a player of the fetched room is not ready,
\* and returns true only if all were ready and this call changed the status
\* from waiting to playing
C5_StartGame ==
    [][\A c \in Clients :
         StartGameReturns(c) =>
            /\ ~AllReady(call[c].room) => out'[c].ret = "false"
            /\ out'[c].ret = "true" =>
                  /\ AllReady(call[c].room)
                  /\ call[c].room.status = "waiting"
                  /\ store'.status = "playing"]_vars

\* client c's updateWithLock returns after a write that succeeded
LockWrites(c) ==
    /\ call[c].pc = "ul_save" /\ call'[c].pc = "idle"
    /\ out'[c].ulOut = "ok"

\* C4: a successful updateWithLock writes the version it fetched plus 1,
\* whatever its updater does
C4_VersionPlusOne ==
    [][\A c \in Clients :
         LockWrites(c) =>
            /\ store'.version = call[c].room.version + 1
            /\ lastVersion'[c] = call[c].room.version + 1]_vars

\* an updater that changed nothing was written: the stored room is the initial
\* one but for its version, which is one higher
C4_Witness ==
    \E c \in Clients :
        /\ out[c].ulOut = "ok" /\ out[c].ret = "room"
        /\ store = [InitialRoom EXCEPT !.version = InitialRoom.version + 1]
        /\ out[c].room = store
        /\ lastVersion[c] = InitialRoom.version + 1

\* client c's updateWithLock returns
LockReturns(c) == call[c].pc \in {"ul_get", "ul_save"} /\ call'[c].pc = "idle"

\* C6: updateWithLock makes at most maxRetries fetch-and-write attempts; it
\* returns the updated room exactly when a write succeeds, gives up (null) only
\* when the room is absent or the maxRetries-th write has failed, and every
\* call returns
C6_Retries ==
    /\ [](\A c \in Clients :
            call[c].pc \in {"ul_get", "ul_save"} => call[c].i + 1 <= call[c].maxRetries)
    /\ [][\A c \in Clients :
            LockReturns(c) =>
               /\ (out'[c].ret = "room") =
                     (call[c].pc = "ul_save" /\ failsLeft' = failsLeft
                      /\ store' = out'[c].room)
               /\ out'[c].ret \in {"room", "null"}
               /\ out'[c].ret = "null" =>
                     \/ call[c].pc = "ul_get" /\ out'[c].ulOut = "absent"
                     \/ /\ call[c].pc = "ul_save" /\ failsLeft' < failsLeft
                        /\ call[c].i + 1 = call[c].maxRetries
                        /\ out'[c].ulOut = "exhausted"]_vars
    /\ \A c \in Clients : (call[c].pc /= "idle") ~> (call[c].pc = "idle")

\* the only call made so far returned a room after two store requests failed:
\* its first two writes failed and its third succeeded
C6_Witness ==
    \E c \in Clients :
        /\ opsLeft = MaxSyncOps - 1
        /\ failsLeft = MaxSyncFail - 2
        /\ call[c].pc = "idle"
        /\ out[c].ulOut = "ok" /\ out[c].ret = "room"
        /\ store = out[c].room

\* the mutation of updater (kind, c, a) shows in room r and not in room base
Applied(kind, c, a, base, r) ==
    CASE kind = "ready"  -> /\ FindPlayer(r, c).isReady = a
                            /\ FindPlayer(base, c).isReady /= a
      [] kind = "online" -> /\ FindPlayer(r, c).isOnline = a
                            /\ FindPlayer(base, c).isOnline /= a
      [] kind = "start"  -> r.status = "playing" /\ base.status /= "playing"
      [] kind = "end"    -> r.status = "ended" /\ base.status /= "ended"
      [] kind = "gameState" -> r.gameState.gs /\ ~base.gameState.gs
      [] kind = "action" -> CountActions(r.gameState.actions, c)
                               = CountActions(base.gameState.actions, c) + 1

C8_StopIsFinal ==
    [][\A c \in Clients :
         stopped[c] =>
            /\ timers'[c] <= timers[c]
            /\ ~(inflight'[c] < inflight[c] /\ lastVersion'[c] /= lastVersion[c])]_vars

\* C9: one SyncManager instance has at most one poll in flight or scheduled
C9_OneLoop == \A c \in Clients : inflight[c] + timers[c] <= 1

\* C10: a createRoom whose write is due while a waiting or playing room is
\* stored leaves that room as it is, returns null (false from reconnect) and
\* reports an error
C10_NoOverwrite ==
    [][\A c \in Clients :
         ( /\ call[c].pc = "cr_save" /\ call'[c].pc = "idle"
           /\ store.exists /\ store.status /= "ended" )
         => ( /\ store' = store
              /\ out'[c].ret \in {"null", "false"}
              /\ out'[c].err /= "none" )]_vars

\* client c's joinRoom gets the stored room from getRoom
JoinReads(c) ==
    call[c].pc = "jn_get" /\ call'[c] /= call[c] /\ failsLeft' = failsLeft

\* client c's joinRoom writes the room with c appended
JoinWrites(c) ==
    call[c].pc = "jn_save" /\ call'[c].pc = "idle" /\ failsLeft' = failsLeft

\* a joinRoom that reads a playing room the caller is not a member of returns
\* null (false from reconnect), reports the started game and writes nothing
JoinRefused ==
    \A c \in Clients :
        ( /\ JoinReads(c)
          /\ store.exists /\ store.status = "playing" /\ ~HasPlayer(store, c) )
        => ( /\ call'[c].pc = "idle"
             /\ out'[c].ret \in {"null", "false"}
             /\ out'[c].err = "game_started"
             /\ store' = store )

\* C11 as stated: joinRoom by a non-member of a playing room returns null and
\* writes nothing, and no player is appended while the stored status is playing
C11_NeverWhilePlaying ==
    [][ /\ JoinRefused
        /\ \A c \in Clients :
              (JoinWrites(c) /\ store.exists) => store.status /= "playing" ]_vars

\* C11 (amended): joinRoom by a non-member that reads a playing room returns
\* null and writes nothing, and a player is appended only by a joinRoom that
\* read a room whose status was not playing
C11_JoinPlaying ==
    [][ /\ JoinRefused
        /\ \A c \in Clients :
              JoinWrites(c) =>
                 /\ call[c].room.status /= "playing"
                 /\ store' = JoinedRoom(call[c].room, c) ]_vars

\* a client was refused by a playing room and is not among its players
C11_Witness ==
    \E c \in Clients :
        /\ out[c].op = "joinRoom" /\ out[c].ret = "null"
        /\ out[c].err = "game_started"
        /\ call[c].pc = "idle"
        /\ store.exists /\ store.status = "playing" /\ ~HasPlayer(store, c)

\* C12: the ids of the stored players are pairwise different
C12_UniqueIds ==
    store.exists => Cardinality(PlayerIds(store)) = Len(store.players)

\* a member called joinRoom again: it went through the online-status update
\* and is still listed once, next to the other client
C12_Witness ==
    \E c \in Clients :
        /\ out[c].op = "joinRoom" /\ out[c].ret = "room" /\ out[c].ulOut = "ok"
        /\ call[c].pc = "idle"
        /\ store.exists /\ HasPlayer(store, c)
        /\ Len(store.players) = NumClients
        /\ PlayerIds(store) = Clients

\* client c's leaveRoom performs its write (deleteRoom or saveRoom)
LeaveWrites(c) == call[c].pc = "lv_write" /\ call'[c].pc = "idle"

\* the stored room is deleted in this step
RoomDeleted == store.exists /\ ~store'.exists

\* a stored room has at least one player
NeverEmpty == store.exists => Len(store.players) > 0

\* a leaveRoom that fetched a room in which the leaver was the only player
\* deletes the room
LastLeaverDeletes ==
    \A c \in Clients :
        (LeaveWrites(c) /\ FilterOut(call[c].room.players, c) = << >>)
        => ~store'.exists

HostOnlyOps == {"startGame", "updateGameState", "endGame"}

\* client c, with no call in progress, calls a host-only operation
HostOpBegins(c) ==
    /\ call[c].pc = "idle" /\ opsLeft' < opsLeft
    /\ out'[c] /= out[c] /\ out'[c].op \in HostOnlyOps

\* client c's SyncManager has observed the stored room, which names c as host
SeenAsHost(c) ==
    /\ sync[c] /\ ~stopped[c]
    /\ store.exists /\ store.hostId = c /\ HasPlayer(store, c)
    /\ FindPlayer(store, c).isHost
    /\ lastVersion[c] = store.version

\* C14: once a client's sync has observed the stored room that names it host,
\* its startGame / updateGameState / endGame are accepted (they go on to the
\* locked update) rather than refused
C14_HostAfterTransfer ==
    [][\A c \in Clients :
         (HostOpBegins(c) /\ SeenAsHost(c)) => call'[c].pc = "ul_get"]_vars

\* C15: a startGame / updateGameState / endGame write is issued by the client
\* the stored room names as host, and a client the stored room does not name
\* as host is refused when it calls one of them
C15_HostOnlyWrites ==
    [][\A c \in Clients :
         /\ (LockWrites(c) /\ out[c].op \in HostOnlyOps)
               => (store.exists /\ store.hostId = c)
         /\ (HostOpBegins(c) /\ store.exists /\ store.hostId /= c)
               => (call'[c].pc = "idle" /\ out'[c].ret \in {"false", "void"})]_vars

\* client c's call writes a room built from the room it fetched
WritesBack(c) ==
    /\ call[c].pc \in {"jn_save", "lv_write", "ul_save"}
    /\ call'[c] /= call[c]
    /\ failsLeft' = failsLeft
    /\ store'.exists

\* every client other than c has the same record in room r as in room base,
\* but for the isHost flag that c's leaveRoom sets on the first remaining
\* player
OthersKept(c, base, r) ==
    \A b \in Clients \ {c} :
        /\ HasPlayer(r, b) = HasPlayer(base, b)
        /\ HasPlayer(base, b) =>
              LET p == FindPlayer(base, b)
                  q == FindPlayer(r, b)
              IN  /\ q.isReady = p.isReady
                  /\ q.isOnline = p.isOnline
                  /\ \/ q.isHost = p.isHost
                     \/ /\ call[c].pc = "lv_write"
                        /\ q.isHost /\ r.players[1].id = b /\ r.hostId = b

\* setReady leaves c's other fields alone and, when c is not a player of room
\* base, leaves players as it is
ReadyOnly(c, base, r) ==
    (call[c].pc = "ul_save" /\ call[c].upd = "ready") =>
        IF HasPlayer(base, c)
        THEN /\ FindPlayer(r, c).isReady = call[c].arg
             /\ FindPlayer(r, c).isHost = FindPlayer(base, c).isHost
             /\ FindPlayer(r, c).isOnline = FindPlayer(base, c).isOnline
        ELSE r.players = base.players

\* C16 as stated: a write by client A leaves the stored record of every other
\* client B as it was in the store, but for the isHost flag of a host
\* transfer; setReady changes only A's isReady
C16_StoredRecordsKept ==
    [][\A c \in Clients :
         (WritesBack(c) /\ store.exists) =>
            /\ OthersKept(c, store, store')
            /\ ReadyOnly(c, store, store')]_vars

\* C16 (amended): a write by client A carries the record of every other client
\* B as it was in the room A's operation fetched, but for the isHost flag of a
\* host transfer; setReady changes only A's isReady in that room
C16_FetchedRecordsKept ==
    [][\A c \in Clients :
         WritesBack(c) =>
            /\ OthersKept(c, call[c].room, store')
            /\ ReadyOnly(c, call[c].room, store')]_vars

\* client 2 has set itself ready in a room of two; client 1's record is the
\* one createRoom wrote
C16_Witness ==
    /\ out[2].op = "setReady" /\ out[2].ulOut = "ok" /\ call[2].pc = "idle"
    /\ store.exists /\ store.hostId = 1
    /\ store.players = << NewPlayer(1, TRUE, TRUE), NewPlayer(2, FALSE, TRUE) >>

\* client c's startGame returns after a store request of its locked update
\* failed
StartGameStoreFails(c) ==
    /\ out[c].op = "startGame"
    /\ call[c].pc \in {"ul_get", "ul_save"} /\ call'[c].pc = "idle"
    /\ failsLeft' < failsLeft

\* C17: a startGame that fetched a room with a player not ready leaves the
\* stored room as it is, and a startGame that fails on a store request reports
\* something else than "not ready"
C17_NotReadyNoChange ==
    [][\A c \in Clients :
         /\ (StartGameReturns(c) /\ ~AllReady(call[c].room)) => store' = store
         /\ StartGameStoreFails(c) => out'[c].err /= "not_ready"]_vars

\* the place of a status in waiting -> playing -> ended
StatusRank(s) == CASE s = "waiting" -> 0 [] s = "playing" -> 1 [] s = "ended" -> 2

\* a createRoom writes its fresh room in this step
FreshRoomWritten ==
    \E c \in Clients : call[c].pc = "cr_save" /\ call'[c].pc = "idle"

\* C18: but for createRoom writing a fresh room, the stored status never moves
\* backwards in waiting -> playing -> ended, and an ended room stays ended
C18_StatusMonotonic ==
    [][(store.exists /\ store'.exists /\ ~FreshRoomWritten) =>
          /\ StatusRank(store'.status) >= StatusRank(store.status)
          /\ store.status = "ended" => store'.status = "ended"]_vars

\* C19: a stored room carries a gameState only while its status is playing
C19_GameStateOnlyPlaying ==
    (store.exists /\ store.gameState.present) => store.status = "playing"


\* the players of the built game state that sit on seat s
SeatedAt(s) ==
    { i \in 1..Len(gameState.players) : gameState.players[i].seat = s }

\* C20: for a room of n >= 1 players, createSeatMappings(players, n) followed
\* by createMultiplayerGameState gives a game state of exactly
\* N = max(n, MinSeats) players; every seat 1..N is held by exactly one of them
\* and no other seat number occurs; seat s <= n is held by the s-th room player
\* in join order, as a human; every seat above n is held by an AI player; all
\* are alive and the phase is SETUP.
C20_SeatsOneToN ==
    seatPc = "done" =>
        LET n == Len(multiPlayers)
            N == IF n > MinSeats THEN n ELSE MinSeats
            ps == gameState.players
        IN  /\ gameState.present
            /\ gameState.phase = "SETUP"
            /\ Len(ps) = N
            /\ \A i \in 1..Len(ps) : ps[i].seat \in 1..N /\ ps[i].alive
            /\ \A s \in 1..N :
                  /\ Cardinality(SeatedAt(s)) = 1
                  /\ \A i \in SeatedAt(s) :
                        IF s <= n
                        THEN /\ ps[i].isHuman
                             /\ ps[i].displayName = multiPlayers[s].id
                             /\ ps[i].playerId = seatMappings[s].gamePlayerId
                             /\ seatMappings[s].multiPlayerId = multiPlayers[s].id
                        ELSE ~ps[i].isHuman

\* a room of two players was seated: two humans and four AI players
C20_Witness ==
    /\ seatPc = "done"
    /\ Len(multiPlayers) = 2
    /\ Len(gameState.players) = MinSeats
    /\ gameState.players[2].isHuman
    /\ ~gameState.players[3].isHuman
    /\ gameState.players[MinSeats].seat = MinSeats


\* how often role r occurs in the sequence rs / among the seated players
RoleCount(rs, r) == Cardinality({ i \in 1..Len(rs) : rs[i] = r })
SeatedRoleCount(r) ==
    Cardinality({ i \in 1..Len(gameState.players) : gameState.players[i].role = r })

RoleNames == { "Werewolf", "Seer", "Witch", "Hunter", "Guard", "Villager" }

\* C21: the roles createMultiplayerGameState hands out are, as a multiset, the
\* role table's row for the total seat count N = max(playerCount, MinSeats)
\* clamped to 4..12: every seat has a role of the table, and each role occurs
\* as often as in that row (so the counts sum to N).
C21_RolesMatchTable ==
    seatPc = "done" =>
        LET n == Len(multiPlayers)
            N == IF n > MinSeats THEN n ELSE MinSeats
            row == RoleConfig(ClampCount(N))
        IN  /\ \A i \in 1..Len(gameState.players) :
                  gameState.players[i].role \in RoleNames
            /\ \A r \in RoleNames : SeatedRoleCount(r) = RoleCount(row, r)


\* sequence a is an initial part of sequence b
IsPrefix(a, b) == Len(a) <= Len(b) /\ SubSeq(b, 1, Len(a)) = a

\* an updateGameState (the host's phase commit) writes in this step
GameStateWritten ==
    \E c \in Clients :
        call[c].pc = "ul_save" /\ call[c].upd = "gameState" /\ call'[c].pc = "idle"

\* C27 as stated: between two phase commits of the host the stored queue
\* gameState.actions only grows, whatever the other clients write
C27_QueueOnlyGrows ==
    [][(store.exists /\ store'.exists /\ ~FreshRoomWritten /\ ~GameStateWritten) =>
          IsPrefix(store.gameState.actions, store'.gameState.actions)]_vars

\* C27 (amended): every write other than the host's phase commit stores a queue
\* that extends the queue of the room that operation fetched: submitAction
\* stores the fetched queue with its own action appended, every other
\* operation stores the fetched queue as it is
C27_FetchedQueueKept ==
    [][\A c \in Clients :
         (WritesBack(c) /\ call[c].upd /= "gameState") =>
            /\ IsPrefix(call[c].room.gameState.actions, store'.gameState.actions)
            /\ store'.gameState.actions =
                  IF call[c].upd = "action"
                  THEN Append(call[c].room.gameState.actions, c)
                  ELSE call[c].room.gameState.actions]_vars

\* both clients' actions are queued, client 1's first, and client 1 has since
\* set its ready flag
C27_Witness ==
    /\ store.exists /\ store.gameState.actions = << 1, 2 >>
    /\ out[2].op = "submitAction" /\ out[2].ret = "true"
    /\ out[1].op = "setReady" /\ out[1].ulOut = "ok"


\* the polls of client c's SyncManager that are scheduled or awaiting getRoom
LoopsAlive(c) == inflight[c] + timers[c]

\* a poll of client c's SyncManager leaves its await in this step
PollEnds(c) == inflight'[c] = inflight[c] - 1

\* C28: a poll that returns, whether getRoom gave a room or null (an absent
\* room or a failed request), schedules the next poll; and a polling loop that
\* is alive stays alive over every step in which stop() is not called
C28_PollReschedules ==
    [][\A c \in Clients :
         /\ PollEnds(c) =>
               /\ timers'[c] = timers[c] + 1
               /\ intervalId'[c] = "live"
         /\ (LoopsAlive(c) >= 1 /\ ~stopped[c] /\ ~stopped'[c]) =>
               inflight'[c] + timers'[c] >= 1]_vars

\* client 1's first poll got null from a failed request and the next poll is
\* scheduled; nothing else has happened
C28_Witness ==
    /\ timers[1] = 1 /\ inflight[1] = 0 /\ intervalId[1] = "live" /\ ~stopped[1]
    /\ lastVersion[1] = 0
    /\ failsLeft = MaxSyncFail - 1
    /\ \A c \in Clients : call[c].pc = "idle" /\ out[c].op = "none"
    /\ \A c \in Clients \ {1} : LoopsAlive(c) = 0


\* C30 as stated: but for createRoom writing a fresh room, the version of the
\* stored room never decreases from one stored state to the next
C30_VersionNeverDecreases ==
    [][(store.exists /\ store'.exists /\ ~FreshRoomWritten) =>
          store'.version >= store.version]_vars

\* C30 (amended): joinRoom, leaveRoom and updateWithLock store the version of
\* the room they fetched plus 1, so the stored version goes up whenever the
\* room fetched is not older than the room overwritten
C30_VersionFromFetched ==
    [][\A c \in Clients :
         WritesBack(c) =>
            /\ store'.version = call[c].room.version + 1
            /\ (store.exists /\ call[c].room.version >= store.version) =>
                  store'.version > store.version]_vars

\* created, joined, and set ready one after another: three writes, version 3
C30_Witness ==
    /\ store.exists /\ store.version = 3 /\ Len(store.players) = 2
    /\ out[2].op = "setReady" /\ out[2].ulOut = "ok"
    /\ out[1].op = "createRoom" /\ out[1].ret = "room"


\* the living players of ps that are / are not Werewolves
LivingWolves(ps) ==
    Cardinality({ i \in 1..Len(ps) : ps[i].alive /\ ps[i].role = "Werewolf" })
LivingOthers(ps) ==
    Cardinality({ i \in 1..Len(ps) : ps[i].alive /\ ps[i].role /= "Werewolf" })

\* C22: checkGameEnd returns true with winner village exactly when no living
\* player is a Werewolf; otherwise true with winner wolf exactly when the
\* living Werewolves are at least as many as the other living players;
\* otherwise false, leaving the winner unset
C22_CheckGameEnd ==
    hlog.check.done =>
        LET wolves == LivingWolves(hlog.check.players)
            others == LivingOthers(hlog.check.players)
        IN  /\ (hlog.check.ended /\ hlog.check.winner = "village") <=> wolves = 0
            /\ (hlog.check.ended /\ hlog.check.winner = "wolf") <=>
                  (wolves > 0 /\ wolves >= others)
            /\ ~hlog.check.ended <=> (wolves > 0 /\ wolves < others)
            /\ ~hlog.check.ended => hlog.check.winner = "null"
            /\ currentGameState.winner = hlog.check.winner

\* two living Werewolves against two others: the check gave the game to the
\* wolves
C22_Witness ==
    /\ hlog.check.done
    /\ LivingWolves(hlog.check.players) = 2
    /\ LivingOthers(hlog.check.players) = 2
    /\ hlog.check.ended /\ currentGameState.winner = "wolf"

\* the phase of the controller's state changes in this step
PhaseChanges ==
    /\ currentGameState.present
    /\ currentGameState'.phase /= currentGameState.phase

C24_NothingAfterStop ==
    [][(hlog.stops >= 1 /\ ~isRunning) =>
          /\ ~(hc'[1].pc = "ai" /\ hc[1].pc /= "ai")
          /\ ~PhaseChanges]_vars

\* C25: a failing AI-action request never ends the phase handler: no handler
\* is ever left by the rejection of onAIAction
C25_FailureNeverBlocks == hc[1].pc /= "thrown"

\* the clients that have an entry in the stored pending-action queue
Queued ==
    IF store.exists
    THEN { store.gameState.actions[i] : i \in 1..Len(store.gameState.actions) }
    ELSE {}

\* C26 (for the human participants; the player on seat k is client k): no
\* transition out of a night-action, speech or vote phase is made while a
\* required human participant of that phase has no entry in the stored queue
C26_RequiredHumansQueued ==
    [][(PhaseChanges /\ currentGameState.phase \in
            NightActionPhases \cup SpeechPhases \cup VotePhases) =>
          LET req == getRequiredPlayers(currentGameState)
          IN  \A i \in 1..Len(req) :
                 currentGameState.players[req[i]].isHuman => req[i] \in Queued]_vars

\* C29: the host's client never has a read-modify-write of its own call and
\* one of its controller's phase commit in flight at the same time
C29_OneWriteInFlight ==
    ~(commit[1].pc /= "idle" /\ call[HostClient].pc \in { "ul_get", "ul_save" })


\* C35: joinRoom and leaveRoom write the room as the locked update does: a
\* write of theirs that fails while the retry bound is not used up is followed
\* by another attempt, never by the return of the call
C35_JoinLeaveRetried ==
    [][\A c \in Clients :
          (/\ call[c].pc \in { "jn_save", "lv_write" }
           /\ call'[c] /= call[c]
           /\ failsLeft' < failsLeft) => call'[c].pc /= "idle"]_vars


\* the phases the controller may go to from the phase of `state`
PhaseGraph(state) ==
    LET phase == state.phase
    IN  CASE phase = "SETUP" -> { "NIGHT_START" }
          [] phase \in { "NIGHT_START" } \cup NightActionPhases ->
                NightActionPhases \cup { "NIGHT_RESOLVE" }
          [] phase = "NIGHT_RESOLVE" -> { "DAY_START", "GAME_END" }
          [] phase = "DAY_START" ->
                IF state.day = 1 THEN { "DAY_BADGE_SIGNUP" } ELSE { "DAY_SPEECH" }
          [] phase \in SpeechPhases ->
                IF state.currentSpeakerSeat = 0 THEN VotePhases ELSE {}
          [] phase \in VotePhases -> { "DAY_RESOLVE" }
          [] phase = "DAY_RESOLVE" -> { "NIGHT_START", "GAME_END" }
          [] OTHER -> {}

C38_NeverStalls ==
    (/\ isRunning /\ currentGameState.present
     /\ currentGameState.phase /= "GAME_END") => hc[1].pc /= "done"


\* C37: no two handler chains of one controller have an AI request or a state
\* commit in flight at the same time, whatever the order of the start() and
\* stop() calls made on it
C37_OneChainActs ==
    \A j, k \in Chains :
        (j /= k) => ~(hc[j].pc \in { "ai", "update" } /\ hc[k].pc \in { "ai", "update" })


\* C33: when the commit of a transition has failed (updateGameState returned
\* false), the controller does not go on to process the new phase: every
\* handler chain is still in transitionTo or has ended
C33_FailedCommitHalts ==
    hlog.failed => \A k \in Chains : hc[k].stage \in { "transition", "none" }

\* client c runs a controller: only the hook whose startGame ran holds one
RunsController(c) == c = HostClient /\ isRunning

\* C39: while the stored room is playing and has members (the controller
\* having been started and the game not being over), the client the room names
\* as host runs a controller, also when that client is no longer the one that
\* started the game
C39_NewHostRunsController ==
    (/\ store.exists /\ store.status = "playing" /\ Len(store.players) >= 1
     /\ currentGameState.present /\ currentGameState.phase /= "GAME_END"
     /\ store.hostId /= HostClient) => RunsController(store.hostId)


\* C31: a poll that fetched the room schedules the next poll with the interval
\* of the fetched room's status, whoever wrote that status
C31_IntervalOfFetchedStatus ==
    [][\A c \in Clients :
          (inflight'[c] < inflight[c] /\ Fetched(c)) =>
              getInterval(pollStatus'[c]) = getInterval(store.status)]_vars

\* C32: refresh changes the version the instance tracks only to a newer one:
\* across a refresh that fetched the room, whatever polls and updateWithLock
\* calls went before, the tracked version does not decrease
C32_RefreshOnlyAdvances ==
    [][\A c \in Clients :
          (call[c].pc = "rf_get" /\ call'[c].pc = "idle") =>
              lastVersion'[c] >= lastVersion[c]]_vars

\* C36: once no call is in progress and a client's polling loop has caught up
\* with the stored version (so that no later poll hands a room on), the room
\* its observer holds is the stored room
C36_CaughtUpMeansInSync ==
    \A c \in Clients :
        (/\ \A d \in Clients : call[d].pc = "idle"
         /\ store.exists /\ lastVersion[c] >= store.version
         /\ inflight[c] + timers[c] >= 1) => seen[c] = store

=============================================================================
